---- MODULE Spec2Model ----
(***************************************************************************)
(* Orchestration core of eigenAgent (src-tauri): the runtime state         *)
(* LlamaServerManager, the server lifecycle (switch_model and the startup  *)
(* task of run), the download manager (download_model, cancel_download)    *)
(* and the chat streaming loop (chat_stream, cancel_generation).           *)
(*                                                                         *)
(* Conventions.  Option<T> is a sequence: None == <<>>, Some(x) == <<x>>.  *)
(* Text (String) is a sequence of characters.  A tauri command that is an  *)
(* async fn runs on the multi-threaded runtime, so every lock region and   *)
(* every atomic load/store of a command is one step a concurrent command   *)
(* can interleave with.  Mutex poisoning (a panic while a lock is held) is *)
(* not modelled: no modelled step panics while holding a lock.             *)
(***************************************************************************)
EXTENDS Integers, Sequences, FiniteSets, TLC

----------------------------------------------------------------------------
(* Bounds of the model *)

\* concurrent callers of switch_model
NumSwitchers == 2
\* switch_model calls made in one run, over all callers
MaxSwitchCalls == 2
\* scaled timeout_secs handed to wait_for_server_ready (the code passes 120)
ProbeTimeoutSecs == 0
\* concurrent callers of download_model
NumDownloaders == 2
\* download_model calls made in one run, over all callers
MaxDownloadCalls == 2
\* chunks the HTTP layer delivers for one file
MaxChunks == 2
\* tool-call deltas of one stream fed to the accumulation on its own
MaxDeltas == 3
\* highest index a tool-call delta carries
MaxIndex == 2
\* concurrent callers of chat_stream
NumChatters == 1
\* chat_stream calls made in one run, over all callers
MaxChatCalls == 2
\* two concurrent callers of chat_stream: the calls they make in one run
MaxPairCalls == 3
\* messages one response stream delivers before it ends
MaxStreamEvents == 2
\* text deltas (content or reasoning) one turn receives
MaxText == 1
\* rounds of the tool loop in which the server asks for tools, in the turn
\* followed in full
MaxToolRounds == 1
\* delete_model calls made in one run
MaxDeleteCalls == 1
\* largest timeout_secs handed to wait_for_server_ready on its own
MaxTimeoutSecs == 3

----------------------------------------------------------------------------
(* Values *)

None == <<>>
Some(x) == <<x>>

\* ids a caller may pass; "Z" is in no catalog entry
ModelIds == {"X", "Y", "W", "Z"}

\* ModelFile: filename and size_bytes (the url is not modelled)
ModelFile(name, size) == [filename |-> name, size_bytes |-> size]

\* the catalog: X has one file, Y and W have a model file and a projector;
\* model and mmproj are the two fields of ModelFiles
Catalog ==
    [X |-> [model |-> ModelFile("model.gguf", 204800), mmproj |-> None],
     Y |-> [model |-> ModelFile("model.gguf", 204800),
            mmproj |-> Some(ModelFile("mmproj.gguf", 102400))],
     W |-> [model |-> ModelFile("model.gguf", 204800),
            mmproj |-> Some(ModelFile("mmproj.gguf", 102400))]]

CatalogIds == DOMAIN Catalog

\* PathBuf: directory below models_dir (or "" for models_dir itself) and file
Path(d, f) == [dir |-> d, file |-> f]
EmptyPath == Path("", "")

SwProcs == 1 .. NumSwitchers
DlProcs == 1 .. NumDownloaders
ChProcs == 1 .. NumChatters

\* chunk lengths the HTTP layer may deliver
ChunkLens == {0, 61440, 102400, 143360}

\* types/openai.rs lines 67-71: FunctionCallDelta
FunctionCallDelta(name, arguments) == [name |-> name, arguments |-> arguments]

\* types/openai.rs lines 60-65: ToolCallDelta
ToolCallDelta(index, id, function) ==
    [index |-> index, id |-> id, function |-> function]

\* the tool-call deltas a stream may carry: every subset of the fields id,
\* name and arguments, ids and names that differ, argument fragments that
\* differ
ToolCallDeltas ==
    {ToolCallDelta(i, id, f) :
        i \in 0 .. MaxIndex,
        id \in {None, Some("a"), Some("b")},
        f \in {None} \cup
              {Some(FunctionCallDelta(n, a)) :
                  n \in {None, Some("calculator")},
                  a \in {None, Some(<<"x">>), Some(<<"y">>)}}}

VARIABLES
    \* LlamaServerManager (state.rs)
    process,            \* Mutex<Option<CommandChild>>
    is_ready,           \* AtomicBool
    model_path,         \* Mutex<PathBuf>
    mmproj_path,        \* Mutex<Option<PathBuf>>
    current_model_id,   \* Mutex<Option<String>>
    \* the file system below models_dir: directory name -> Option<set of files>
    disk,
    \* operating-system processes: the children spawned so far and the
    \* children a kill was sent to
    spawned,
    killSent,
    \* one frame per switch_model caller
    sw,
    \* the startup task of run()
    st,
    \* the switch_model call that returned last: [id, err]
    lastDone,
    \* switch_model calls started so far
    swCalls,
    \* LlamaServerManager (state.rs), the download maps
    active_downloads,       \* Mutex<HashMap<String, Arc<AtomicBool>>>
    downloading_progress,   \* Mutex<HashMap<String, f32>>
    \* the cancellation tokens (Arc<AtomicBool>) whose flag is set
    cancelled,
    \* one frame per download_model caller
    dl,
    \* download_model calls started so far; a call's number names its token
    dlCalls,
    \* the tool-call deltas of one stream in arrival order, and the list
    \* accumulated from them (streaming.rs line 221)
    tc_deltas,
    tool_calls,
    \* LlamaServerManager (state.rs): the cancellation flag of chat turns
    is_cancelled,       \* AtomicBool
    \* the messages table of the database, in insertion order
    messages,
    \* one frame per chat_stream caller
    ch,
    \* chat_stream calls started so far
    chCalls,
    \* the frame of the delete_model caller
    del,
    \* delete_model calls started so far
    delCalls,
    \* one call of wait_for_server_ready on its own
    wait,
    \* one chat turn from the tool loop on, with its requests and events
    turn,
    \* app_settings.tools.enabled_tools: the ids of the enabled tools
    enabled_tools,
    \* the images column of the rows of the messages table, and what each
    \* loader returned when it last read them
    image_rows,
    loaded,
    \* history: the chat_stream callers whose turn has had cancel_generation
    \* called, since it reset the flag, while every caller's turn was in flight
    cancel_requested,
    \* the mutexes of LlamaServerManager: who holds each, and where each
    \* operation stands in its sequence of lock, unlock and await
    owner,
    lockpc

mgrVars == <<process, is_ready, model_path, mmproj_path, current_model_id>>
swVars == <<spawned, killSent, sw, st, lastDone, swCalls>>
dlVars == <<active_downloads, downloading_progress, cancelled, dl, dlCalls>>

accVars == <<tc_deltas, tool_calls>>
chVars == <<is_cancelled, messages, ch, chCalls>>
delVars == <<del, delCalls>>

lockVars == <<owner, lockpc>>
turnVars == <<turn, enabled_tools>>
imgVars == <<image_rows, loaded>>

vars == <<mgrVars, disk, swVars, dlVars, accVars, chVars, delVars, wait, turnVars, imgVars,
          cancel_requested, lockVars>>

----------------------------------------------------------------------------
(* models/catalog.rs, models/discovery.rs *)

Exists(d, p) == d[p.dir] # None /\ p.file \in d[p.dir][1]

get_model_dir(model_id) == model_id

\* Option<(PathBuf, Option<PathBuf>)>
get_model_paths(d, id) ==
    LET entry == Catalog[id]
        mp == Path(get_model_dir(id), entry.model.filename)
        mm == IF entry.mmproj = None THEN None
              ELSE Some(Path(get_model_dir(id), entry.mmproj[1].filename))
    IN  IF ~Exists(d, mp) THEN None
        ELSE IF mm # None /\ ~Exists(d, mm[1]) THEN None
        ELSE Some(<<mp, mm>>)

\* the flat layout: .gguf files directly in models_dir (directory "")
scan_models_dir(d) ==
    IF d[""] = None THEN None
    ELSE LET mains == {f \in d[""][1] : f # "mmproj.gguf"}
             mm == IF "mmproj.gguf" \in d[""][1]
                   THEN Some(Path("", "mmproj.gguf")) ELSE None
         IN  IF mains = {} THEN None
             ELSE Some(<<Path("", CHOOSE f \in mains : TRUE), mm>>)

\* the lookup of switch_model: <<"ok", paths>> or <<error kind>>
SwitchLookup(d, id) ==
    IF id = "legacy"
    THEN LET r == scan_models_dir(d)
         IN  IF r = None THEN <<"legacy_missing">> ELSE <<"ok", r[1]>>
    ELSE IF id \notin CatalogIds THEN <<"not_in_catalog">>
    ELSE LET r == get_model_paths(d, id)
         IN  IF r = None THEN <<"not_downloaded">> ELSE <<"ok", r[1]>>

----------------------------------------------------------------------------
(* commands/model.rs: switch_model *)

\* a child process: the paths it was started with, who started it, and when
Child(mp, mm, by, n) == [mp |-> mp, mm |-> mm, by |-> by, n |-> n]

NoCall == [id |-> "", err |-> "none"]

\* n: the number of the call; from: Some(current model) when the server was
\* ready as the call started
IdleFrame ==
    [pc |-> "idle", n |-> 0, id |-> "", mp |-> EmptyPath, mm |-> None, child |-> None,
     elapsed |-> 0, result |-> "none", err |-> "none", events |-> {},
     overlap |-> FALSE, prev |-> NoCall, from |-> None]

InFlight(f) == f.pc \notin {"idle", "done"}

StInFlight == st.pc \notin {"none", "done"}

\* every frame other than q that is in flight has now overlapped a step
Touch(q) ==
    [r \in SwProcs |->
        IF r # q /\ InFlight(sw[r]) THEN [sw[r] EXCEPT !.overlap = TRUE]
        ELSE sw[r]]

SetFrame(p, f) == sw' = [Touch(p) EXCEPT ![p] = f]

\* the call returns: its locals are dropped
Finish(p, f, res, err) ==
    /\ SetFrame(p, [f EXCEPT !.pc = "done", !.result = res, !.err = err,
                             !.mp = EmptyPath, !.mm = None, !.child = None,
                             !.elapsed = 0])
    /\ lastDone' = [id |-> f.id, err |-> err]

\* lines 104-131: emit "stopping", load the catalog, find the model's files
SwStart(p, id) ==
    /\ sw[p].pc \in {"idle", "done"}
    /\ swCalls < MaxSwitchCalls
    /\ swCalls' = swCalls + 1
    /\ LET f0 == [IdleFrame EXCEPT
                    !.id = id, !.n = swCalls + 1,
                    !.events = {"stopping"},
                    !.overlap = (StInFlight \/ \E r \in SwProcs \ {p} : InFlight(sw[r])),
                    !.prev = lastDone,
                    !.from = IF is_ready THEN current_model_id ELSE None]
           look == SwitchLookup(disk, id)
       IN  IF look[1] # "ok"
           THEN Finish(p, f0, "Err", look[1])
           ELSE /\ SetFrame(p, [f0 EXCEPT !.pc = "kill",
                                          !.mp = look[2][1], !.mm = look[2][2]])
                /\ UNCHANGED lastDone
    /\ UNCHANGED <<mgrVars, disk, spawned, killSent, st>>

\* lines 133-140 with a failed kill returned as the error of the call
SwKill_FailurePropagates(p, killOk) ==
    /\ sw[p].pc = "kill"
    /\ IF process # None
       THEN /\ process' = None
            /\ killSent' = killSent \cup {process[1]}
       ELSE UNCHANGED <<process, killSent>>
    /\ IF killOk
       THEN /\ SetFrame(p, [sw[p] EXCEPT !.pc = "unready"])
            /\ UNCHANGED lastDone
       ELSE Finish(p, sw[p], "Err", "kill")
    /\ UNCHANGED <<is_ready, model_path, mmproj_path, current_model_id, disk,
                   spawned, st, swCalls>>

\* lines 133-140: take the child out of the slot and kill it; the result of
\* the kill is discarded
SwKill(p, killOk) ==
    /\ sw[p].pc = "kill"
    /\ IF process # None
       THEN /\ process' = None
            /\ killSent' = killSent \cup {process[1]}
       ELSE UNCHANGED <<process, killSent>>
    /\ SetFrame(p, [sw[p] EXCEPT !.pc = "unready"])
    /\ UNCHANGED <<is_ready, model_path, mmproj_path, current_model_id, disk,
                   spawned, st, lastDone, swCalls>>

\* line 143 left out: the call goes on without marking the server not ready
SwUnready_Skipped(p) ==
    /\ sw[p].pc = "unready"
    /\ SetFrame(p, [sw[p] EXCEPT !.pc = "set_model_path"])
    /\ UNCHANGED <<process, is_ready, model_path, mmproj_path, current_model_id,
                   disk, spawned, killSent, st, lastDone, swCalls>>

\* line 143
SwUnready(p) ==
    /\ sw[p].pc = "unready"
    /\ is_ready' = FALSE
    /\ SetFrame(p, [sw[p] EXCEPT !.pc = "set_model_path"])
    /\ UNCHANGED <<process, model_path, mmproj_path, current_model_id, disk,
                   spawned, killSent, st, lastDone, swCalls>>

\* lines 146-149
SwSetModelPath(p) ==
    /\ sw[p].pc = "set_model_path"
    /\ model_path' = sw[p].mp
    /\ SetFrame(p, [sw[p] EXCEPT !.pc = "set_mmproj_path"])
    /\ UNCHANGED <<process, is_ready, mmproj_path, current_model_id, disk,
                   spawned, killSent, st, lastDone, swCalls>>

\* lines 150-153
SwSetMmprojPath(p) ==
    /\ sw[p].pc = "set_mmproj_path"
    /\ mmproj_path' = sw[p].mm
    /\ SetFrame(p, [sw[p] EXCEPT !.pc = "set_current"])
    /\ UNCHANGED <<process, is_ready, model_path, current_model_id, disk,
                   spawned, killSent, st, lastDone, swCalls>>

\* lines 154-167: record the id, emit "starting"
SwSetCurrent(p) ==
    /\ sw[p].pc = "set_current"
    /\ current_model_id' = Some(sw[p].id)
    /\ SetFrame(p, [sw[p] EXCEPT !.pc = "spawn",
                                 !.events = @ \cup {"starting"}])
    /\ UNCHANGED <<process, is_ready, model_path, mmproj_path, disk,
                   spawned, killSent, st, lastDone, swCalls>>

\* lines 169-195 and 259-269: create the sidecar command (a failure returns
\* through `?` with no event), read the settings, add the arguments, spawn
\* with the paths this call looked up (a failure emits "error")
SwSpawn(p, outcome) ==
    /\ sw[p].pc = "spawn"
    /\ CASE outcome = "sidecar_err" ->
              /\ Finish(p, sw[p], "Err", "sidecar")
              /\ UNCHANGED spawned
         [] outcome = "spawn_err" ->
              /\ Finish(p, [sw[p] EXCEPT !.events = @ \cup {"error"}], "Err", "spawn")
              /\ UNCHANGED spawned
         [] outcome = "ok" ->
              LET c == Child(sw[p].mp, sw[p].mm, p, sw[p].n)
              IN  /\ spawned' = spawned \cup {c}
                  /\ SetFrame(p, [sw[p] EXCEPT !.pc = "store", !.child = Some(c)])
                  /\ UNCHANGED lastDone
    /\ UNCHANGED <<mgrVars, disk, killSent, st, swCalls>>

\* lines 197-228: store the child (a child still in the slot is dropped, not
\* killed), start the output drain
SwStore(p) ==
    /\ sw[p].pc = "store"
    /\ process' = sw[p].child
    /\ SetFrame(p, [sw[p] EXCEPT !.pc = "probe"])
    /\ UNCHANGED <<is_ready, model_path, mmproj_path, current_model_id, disk,
                   spawned, killSent, st, lastDone, swCalls>>

(* server.rs: wait_for_server_ready, as called at model.rs line 232.  Time   *)
(* is counted in half seconds (the 500 ms sleep of one retry).               *)

ElapsedCap == 2 * (ProbeTimeoutSecs + 1)

\* start.elapsed().as_secs() > timeout_secs
TimedOut(elapsed) == (elapsed \div 2) > ProbeTimeoutSecs

Min(a, b) == IF a < b THEN a ELSE b

\* GET /health can be answered with 2xx once a server process was started:
\* a child that was sent a kill may survive it (the kill result is discarded)
HealthCanSucceed == spawned # {}

\* the store of line 234 placed after the match instead of in its Ok arm
SwProbeTimeout_MarksReady(p) ==
    /\ sw[p].pc = "probe"
    /\ TimedOut(sw[p].elapsed)
    /\ is_ready' = TRUE
    /\ Finish(p, [sw[p] EXCEPT !.events = @ \cup {"error"}], "Err", "timeout")
    /\ UNCHANGED <<process, model_path, mmproj_path, current_model_id,
                   disk, spawned, killSent, st, swCalls>>

\* server.rs lines 10-12 and model.rs lines 246-256
SwProbeTimeout(p) ==
    /\ sw[p].pc = "probe"
    /\ TimedOut(sw[p].elapsed)
    /\ Finish(p, [sw[p] EXCEPT !.events = @ \cup {"error"}], "Err", "timeout")
    /\ UNCHANGED <<mgrVars, disk, spawned, killSent, st, swCalls>>

\* server.rs lines 14-17: the probe is answered with a 2xx status
SwProbeOk(p) ==
    /\ sw[p].pc = "probe"
    /\ ~TimedOut(sw[p].elapsed)
    /\ HealthCanSucceed
    /\ SetFrame(p, [sw[p] EXCEPT !.pc = "probed_ok"])
    /\ UNCHANGED <<mgrVars, disk, spawned, killSent, st, lastDone, swCalls>>

\* server.rs lines 18-20: connection error or non-2xx answer, sleep 500 ms
SwProbeRetry(p, dt) ==
    /\ sw[p].pc = "probe"
    /\ ~TimedOut(sw[p].elapsed)
    /\ SetFrame(p, [sw[p] EXCEPT !.elapsed = Min(@ + dt, ElapsedCap)])
    /\ UNCHANGED <<mgrVars, disk, spawned, killSent, st, lastDone, swCalls>>

\* model.rs lines 233-245 and 272
SwReady(p) ==
    /\ sw[p].pc = "probed_ok"
    /\ is_ready' = TRUE
    /\ Finish(p, [sw[p] EXCEPT !.events = @ \cup {"ready"}], "Ok", "none")
    /\ UNCHANGED <<process, model_path, mmproj_path, current_model_id, disk,
                   spawned, killSent, st, swCalls>>

(* server.rs: wait_for_server_ready on its own, for every timeout_secs up   *)
(* to MaxTimeoutSecs.  elapsed is start.elapsed() in half seconds; a probe   *)
(* takes no time or half a second, the sleep of 500 ms takes half a second   *)
(* or a whole one.                                                           *)

\* past this value the clock is no longer counted: every timeout has expired
WaitClockCap == 2 * (MaxTimeoutSecs + 2)

Advance(elapsed, dt) == Min(elapsed + dt, WaitClockCap)

\* what client.get(health_url).send().await yields
ProbeOutcomes == {"success", "other_status", "connect_error"}

\* line 11 with >= in place of >
WaitCheck_AtTimeout ==
    /\ wait.pc = "check"
    /\ wait' = IF (wait.elapsed \div 2) >= wait.timeout_secs
               THEN [wait EXCEPT !.pc = "done", !.result = "Err",
                                 !.err = "Server startup timeout"]
               ELSE [wait EXCEPT !.pc = "get"]

\* lines 10-13: start.elapsed().as_secs() > timeout_secs returns the error
WaitCheck ==
    /\ wait.pc = "check"
    /\ wait' = IF (wait.elapsed \div 2) > wait.timeout_secs
               THEN [wait EXCEPT !.pc = "done", !.result = "Err",
                                 !.err = "Server startup timeout"]
               ELSE [wait EXCEPT !.pc = "get"]

\* lines 15-21: the probe returns after dt; a 2xx answer returns Ok, anything
\* else goes to the sleep
WaitProbe(outcome, dt) ==
    /\ wait.pc = "get"
    /\ wait' = IF outcome = "success"
               THEN [wait EXCEPT !.pc = "done", !.result = "Ok",
                                 !.last = outcome,
                                 !.elapsed = Advance(@, dt)]
               ELSE [wait EXCEPT !.pc = "sleep", !.last = outcome,
                                 !.elapsed = Advance(@, dt)]

\* line 19: tokio::time::sleep(500 ms) returns after dt >= 500 ms
WaitSleep(dt) ==
    /\ wait.pc = "sleep"
    /\ wait' = [wait EXCEPT !.pc = "check", !.elapsed = Advance(@, dt)]

WaitFrame(pc, t) ==
    [pc |-> pc, timeout_secs |-> t, elapsed |-> 0, last |-> "none",
     result |-> "none", err |-> "none"]

\* lines 5-8: the call starts with its clock at zero
InitWait == wait \in {WaitFrame("check", t) : t \in 0 .. MaxTimeoutSecs}

\* no call of wait_for_server_ready on its own
NoWait == wait = WaitFrame("idle", 0)

----------------------------------------------------------------------------
(* lib.rs: run, the model found at startup and the startup task *)

CatalogOrder == <<"X", "Y", "W">>

RECURSIVE FirstDownloaded(_, _)
FirstDownloaded(d, i) ==
    IF i > Len(CatalogOrder) THEN None
    ELSE LET r == get_model_paths(d, CatalogOrder[i])
         IN  IF r # None THEN Some(<<r[1][1], r[1][2], CatalogOrder[i]>>)
             ELSE FirstDownloaded(d, i + 1)

\* lib.rs lines 1459-1485: Option<(PathBuf, Option<PathBuf>, String)>
FoundModel(d) ==
    LET c == FirstDownloaded(d, 1)
        l == scan_models_dir(d)
    IN  IF c # None THEN c
        ELSE IF l # None THEN Some(<<l[1][1], l[1][2], "legacy">>)
        ELSE None

StTouch == [r \in SwProcs |->
              IF InFlight(sw[r]) THEN [sw[r] EXCEPT !.overlap = TRUE] ELSE sw[r]]

\* lib.rs lines 1536-1554 and 1594-1599: .expect() panics the task when the
\* command cannot be created; a failed spawn emits model:error
StSpawn(outcome) ==
    /\ st.pc = "spawn"
    /\ IF outcome = "ok"
       THEN LET c == Child(st.mp, st.mm, 0, 0)
            IN  /\ spawned' = spawned \cup {c}
                /\ st' = [st EXCEPT !.pc = "store", !.child = Some(c)]
       ELSE /\ st' = [st EXCEPT !.pc = "done"]
            /\ UNCHANGED spawned
    /\ sw' = StTouch
    /\ UNCHANGED <<mgrVars, disk, killSent, lastDone, swCalls>>

\* lib.rs lines 1556-1559
StStore ==
    /\ st.pc = "store"
    /\ process' = st.child
    /\ st' = [st EXCEPT !.pc = "probe", !.child = None]
    /\ sw' = StTouch
    /\ UNCHANGED <<is_ready, model_path, mmproj_path, current_model_id, disk,
                   spawned, killSent, lastDone, swCalls>>

\* lib.rs line 1583 with server.rs: timeout, lib.rs lines 1589-1591
StProbeTimeout ==
    /\ st.pc = "probe"
    /\ TimedOut(st.elapsed)
    /\ st' = [st EXCEPT !.pc = "done", !.elapsed = 0]
    /\ sw' = StTouch
    /\ UNCHANGED <<mgrVars, disk, spawned, killSent, lastDone, swCalls>>

StProbeOk ==
    /\ st.pc = "probe"
    /\ ~TimedOut(st.elapsed)
    /\ HealthCanSucceed
    /\ st' = [st EXCEPT !.pc = "probed_ok", !.elapsed = 0]
    /\ sw' = StTouch
    /\ UNCHANGED <<mgrVars, disk, spawned, killSent, lastDone, swCalls>>

StProbeRetry(dt) ==
    /\ st.pc = "probe"
    /\ ~TimedOut(st.elapsed)
    /\ st' = [st EXCEPT !.elapsed = Min(@ + dt, ElapsedCap)]
    /\ sw' = StTouch
    /\ UNCHANGED <<mgrVars, disk, spawned, killSent, lastDone, swCalls>>

\* lib.rs lines 1584-1588
StReady ==
    /\ st.pc = "probed_ok"
    /\ is_ready' = TRUE
    /\ st' = [st EXCEPT !.pc = "done"]
    /\ sw' = StTouch
    /\ UNCHANGED <<process, model_path, mmproj_path, current_model_id, disk,
                   spawned, killSent, lastDone, swCalls>>

----------------------------------------------------------------------------
(* commands/model.rs: download_model, cancel_download *)

DlIdleFrame ==
    [pc |-> "idle", n |-> 0, id |-> "", file |-> 0, chunks |-> 0, chunk |-> 0,
     file_downloaded |-> 0, total_downloaded |-> 0,
     registered |-> FALSE, made |-> FALSE, progress_events |-> 0,
     complete_events |-> 0, downloaded_bytes |-> 0, result |-> "none",
     err |-> "none"]

\* lines 322-328
files_to_download(id) ==
    <<Catalog[id].model>> \o
    (IF Catalog[id].mmproj = None THEN <<>> ELSE <<Catalog[id].mmproj[1]>>)

\* lines 318-319
total_bytes(id) ==
    Catalog[id].model.size_bytes +
    (IF Catalog[id].mmproj = None THEN 0 ELSE Catalog[id].mmproj[1].size_bytes)

\* line 401: (total_downloaded as f32 / total_bytes as f32) * 100.0, kept to
\* a tenth of a percent; a zero total gives no finite number
Percent(downloaded, total) ==
    IF total = 0 THEN -1 ELSE (downloaded * 1000) \div total

\* line 416: the throttle of download:progress
ProgressStep == 1024 * 100
EmitsProgress_AlsoWhenEqual(file_downloaded, chunk_len) ==
    (file_downloaded % ProgressStep) <= chunk_len
EmitsProgress(file_downloaded, chunk_len) ==
    (file_downloaded % ProgressStep) < chunk_len

SetDl(p, f) == dl' = [dl EXCEPT ![p] = f]

\* the call returns: its locals are dropped
DlFinish(p, f, res, err) ==
    SetDl(p, [f EXCEPT !.pc = "done", !.result = res, !.err = err,
                       !.file = 0, !.chunks = 0, !.chunk = 0,
                       !.file_downloaded = 0, !.total_downloaded = 0,
                       !.progress_events = 0, !.downloaded_bytes = 0])

\* std::fs::remove_dir_all(&model_dir), its result discarded
RemoveDir(id) == disk' = [disk EXCEPT ![get_model_dir(id)] = None]

\* lines 281-298: find the catalog entry, then the already-downloading check
\* under its own lock
DlStart(p, id) ==
    /\ dl[p].pc \in {"idle", "done"}
    /\ dlCalls < MaxDownloadCalls
    /\ dlCalls' = dlCalls + 1
    /\ LET f0 == [DlIdleFrame EXCEPT !.id = id, !.n = dlCalls + 1]
       IN  IF id \notin CatalogIds
           THEN DlFinish(p, f0, "Err", "not_in_catalog")
           ELSE IF active_downloads[id] # None
           THEN DlFinish(p, f0, "Err", "already_downloading")
           ELSE SetDl(p, [f0 EXCEPT !.pc = "register"])
    /\ UNCHANGED <<disk, active_downloads, downloading_progress, cancelled>>

\* lines 300-305: a fresh token, inserted under a second lock
DlRegister(p) ==
    /\ dl[p].pc = "register"
    /\ active_downloads' = [active_downloads EXCEPT ![dl[p].id] = Some(dl[p].n)]
    /\ SetDl(p, [dl[p] EXCEPT !.pc = "track", !.registered = TRUE])
    /\ UNCHANGED <<disk, downloading_progress, cancelled, dlCalls>>

\* lines 307-311
DlTrack(p) ==
    /\ dl[p].pc = "track"
    /\ downloading_progress' = [downloading_progress EXCEPT ![dl[p].id] = Some(0)]
    /\ SetDl(p, [dl[p] EXCEPT !.pc = "mkdir"])
    /\ UNCHANGED <<disk, active_downloads, cancelled, dlCalls>>

\* lines 313-332: create_dir_all, a failure returns through `?`
DlMkdir(p, ok) ==
    /\ dl[p].pc = "mkdir"
    /\ IF ok
       THEN /\ disk' = [disk EXCEPT ![get_model_dir(dl[p].id)] =
                           IF @ = None THEN Some({}) ELSE @]
            /\ SetDl(p, [dl[p] EXCEPT !.pc = "file_check", !.made = TRUE,
                                      !.file = 1])
       ELSE /\ DlFinish(p, dl[p], "Err", "create_dir")
            /\ UNCHANGED disk
    /\ UNCHANGED <<active_downloads, downloading_progress, cancelled, dlCalls>>

\* lines 334-337 and 349: the token is read at the start of each file
DlFileCheck(p) ==
    /\ dl[p].pc = "file_check"
    /\ IF dl[p].n \in cancelled
       THEN /\ RemoveDir(dl[p].id)
            /\ SetDl(p, [dl[p] EXCEPT !.pc = "cleanup_downloads",
                                      !.err = "cancelled"])
       ELSE /\ SetDl(p, [dl[p] EXCEPT !.pc = "send"])
            /\ UNCHANGED disk
    /\ UNCHANGED <<active_downloads, downloading_progress, cancelled, dlCalls>>

\* lines 338-341, 360-363, 384-387
DlCleanupDownloads(p) ==
    /\ dl[p].pc = "cleanup_downloads"
    /\ active_downloads' = [active_downloads EXCEPT ![dl[p].id] = None]
    /\ SetDl(p, [dl[p] EXCEPT !.pc = "cleanup_progress"])
    /\ UNCHANGED <<disk, downloading_progress, cancelled, dlCalls>>

\* lines 342-346, 364-368, 388-392
DlCleanupProgress(p) ==
    /\ dl[p].pc = "cleanup_progress"
    /\ downloading_progress' = [downloading_progress EXCEPT ![dl[p].id] = None]
    /\ DlFinish(p, dl[p], "Err", dl[p].err)
    /\ UNCHANGED <<disk, active_downloads, cancelled, dlCalls>>

\* lines 351-359: the GET; a transport error returns through `?`, a non-2xx
\* status removes the directory and goes on to clear the maps
DlSend(p, outcome) ==
    /\ dl[p].pc = "send"
    /\ CASE outcome = "transport_err" ->
              /\ DlFinish(p, dl[p], "Err", "send")
              /\ UNCHANGED disk
         [] outcome = "http_status" ->
              /\ RemoveDir(dl[p].id)
              /\ SetDl(p, [dl[p] EXCEPT !.pc = "cleanup_downloads",
                                        !.err = "http_status"])
         [] outcome = "ok" ->
              /\ SetDl(p, [dl[p] EXCEPT !.pc = "create"])
              /\ UNCHANGED disk
    /\ UNCHANGED <<active_downloads, downloading_progress, cancelled, dlCalls>>

\* lines 371-378 with the counter of the download reset with that of the file
DlCreate_TotalReset(p, ok) ==
    /\ dl[p].pc = "create"
    /\ LET d == get_model_dir(dl[p].id)
           name == files_to_download(dl[p].id)[dl[p].file].filename
       IN  IF ok /\ disk[d] # None
           THEN /\ disk' = [disk EXCEPT ![d] = Some(@[1] \cup {name})]
                /\ SetDl(p, [dl[p] EXCEPT !.pc = "chunk", !.file_downloaded = 0,
                                          !.total_downloaded = 0,
                                          !.chunks = 0, !.progress_events = 0])
           ELSE /\ DlFinish(p, dl[p], "Err", "create_file")
                /\ UNCHANGED disk
    /\ UNCHANGED <<active_downloads, downloading_progress, cancelled, dlCalls>>

\* lines 371-378: File::create succeeds only in an existing directory
DlCreate(p, ok) ==
    /\ dl[p].pc = "create"
    /\ LET d == get_model_dir(dl[p].id)
           name == files_to_download(dl[p].id)[dl[p].file].filename
       IN  IF ok /\ disk[d] # None
           THEN /\ disk' = [disk EXCEPT ![d] = Some(@[1] \cup {name})]
                /\ SetDl(p, [dl[p] EXCEPT !.pc = "chunk", !.file_downloaded = 0,
                                          !.chunks = 0, !.progress_events = 0])
           ELSE /\ DlFinish(p, dl[p], "Err", "create_file")
                /\ UNCHANGED disk
    /\ UNCHANGED <<active_downloads, downloading_progress, cancelled, dlCalls>>

\* lines 380-393 without the remove_dir_all of line 383
DlChunk_KeepsDirectory(p, kind, len, writeOk) ==
    /\ dl[p].pc = "chunk"
    /\ IF kind = "end"
       THEN /\ SetDl(p, [dl[p] EXCEPT !.pc = "flush"])
            /\ UNCHANGED disk
       ELSE IF dl[p].n \in cancelled
       THEN /\ UNCHANGED disk
            /\ SetDl(p, [dl[p] EXCEPT !.pc = "cleanup_downloads",
                                      !.err = "cancelled"])
       ELSE IF kind = "chunk_err"
       THEN /\ DlFinish(p, dl[p], "Err", "chunk")
            /\ UNCHANGED disk
       ELSE IF ~writeOk
       THEN /\ DlFinish(p, dl[p], "Err", "write")
            /\ UNCHANGED disk
       ELSE /\ dl[p].chunks < MaxChunks
            /\ SetDl(p, [dl[p] EXCEPT
                            !.pc = "progress", !.chunk = len,
                            !.chunks = @ + 1,
                            !.file_downloaded = @ + len,
                            !.total_downloaded = @ + len])
            /\ UNCHANGED disk
    /\ UNCHANGED <<active_downloads, downloading_progress, cancelled, dlCalls>>

\* lines 380-399: what stream.next() delivers: the end of the body, a failed
\* chunk, or len bytes.  The token is read when a chunk result has arrived,
\* before the result is looked at.
DlChunk(p, kind, len, writeOk) ==
    /\ dl[p].pc = "chunk"
    /\ IF kind = "end"
       THEN /\ SetDl(p, [dl[p] EXCEPT !.pc = "flush"])
            /\ UNCHANGED disk
       ELSE IF dl[p].n \in cancelled
       THEN /\ RemoveDir(dl[p].id)
            /\ SetDl(p, [dl[p] EXCEPT !.pc = "cleanup_downloads",
                                      !.err = "cancelled"])
       ELSE IF kind = "chunk_err"
       THEN /\ DlFinish(p, dl[p], "Err", "chunk")
            /\ UNCHANGED disk
       ELSE IF ~writeOk
       THEN /\ DlFinish(p, dl[p], "Err", "write")
            /\ UNCHANGED disk
       ELSE /\ dl[p].chunks < MaxChunks
            /\ SetDl(p, [dl[p] EXCEPT
                            !.pc = "progress", !.chunk = len,
                            !.chunks = @ + 1,
                            !.file_downloaded = @ + len,
                            !.total_downloaded = @ + len])
            /\ UNCHANGED disk
    /\ UNCHANGED <<active_downloads, downloading_progress, cancelled, dlCalls>>

\* lines 401-427: store the percentage, emit download:progress when throttled
\* in; downloaded_bytes is the field of the payload of the last event
DlProgress(p) ==
    /\ dl[p].pc = "progress"
    /\ downloading_progress' =
          [downloading_progress EXCEPT ![dl[p].id] =
              Some(Percent(dl[p].total_downloaded, total_bytes(dl[p].id)))]
    /\ SetDl(p, IF EmitsProgress(dl[p].file_downloaded, dl[p].chunk)
                THEN [dl[p] EXCEPT
                        !.pc = "chunk", !.progress_events = @ + 1,
                        !.downloaded_bytes = dl[p].total_downloaded]
                ELSE [dl[p] EXCEPT !.pc = "chunk"])
    /\ UNCHANGED <<disk, active_downloads, cancelled, dlCalls>>

\* lines 430-431 with the token read once more after the flush
DlFlush_TokenRead(p, ok) ==
    /\ dl[p].pc = "flush"
    /\ IF ~ok
       THEN DlFinish(p, dl[p], "Err", "flush")
       ELSE IF dl[p].n \in cancelled
       THEN SetDl(p, [dl[p] EXCEPT !.pc = "cleanup_downloads",
                                   !.err = "cancelled"])
       ELSE IF dl[p].file < Len(files_to_download(dl[p].id))
       THEN SetDl(p, [dl[p] EXCEPT !.pc = "file_check", !.file = @ + 1])
       ELSE SetDl(p, [dl[p] EXCEPT !.pc = "finish_downloads"])
    /\ UNCHANGED <<disk, active_downloads, downloading_progress, cancelled, dlCalls>>

\* lines 430-431: flush, then the next file
DlFlush(p, ok) ==
    /\ dl[p].pc = "flush"
    /\ IF ~ok
       THEN DlFinish(p, dl[p], "Err", "flush")
       ELSE IF dl[p].file < Len(files_to_download(dl[p].id))
       THEN SetDl(p, [dl[p] EXCEPT !.pc = "file_check", !.file = @ + 1])
       ELSE SetDl(p, [dl[p] EXCEPT !.pc = "finish_downloads"])
    /\ UNCHANGED <<disk, active_downloads, downloading_progress, cancelled, dlCalls>>

\* lines 433-437
DlFinishDownloads(p) ==
    /\ dl[p].pc = "finish_downloads"
    /\ active_downloads' = [active_downloads EXCEPT ![dl[p].id] = None]
    /\ SetDl(p, [dl[p] EXCEPT !.pc = "finish_progress"])
    /\ UNCHANGED <<disk, downloading_progress, cancelled, dlCalls>>

\* lines 438-442: clear the progress under its lock
DlFinishProgress(p) ==
    /\ dl[p].pc = "finish_progress"
    /\ downloading_progress' = [downloading_progress EXCEPT ![dl[p].id] = None]
    /\ SetDl(p, [dl[p] EXCEPT !.pc = "complete"])
    /\ UNCHANGED <<disk, active_downloads, cancelled, dlCalls>>

\* lines 443-447: emit download:complete, its result discarded, return Ok
DlComplete(p) ==
    /\ dl[p].pc = "complete"
    /\ DlFinish(p, [dl[p] EXCEPT !.complete_events = @ + 1], "Ok", "none")
    /\ UNCHANGED <<disk, active_downloads, downloading_progress, cancelled,
                   dlCalls>>

\* lines 450-464 with the flag of every token in the map set
cancel_download_EveryToken(id) ==
    /\ active_downloads[id] # None
    /\ cancelled' = cancelled \cup
          {active_downloads[i][1] : i \in {j \in ModelIds : active_downloads[j] # None}}
    /\ UNCHANGED <<disk, active_downloads, downloading_progress, dl, dlCalls>>

\* lines 450-464: cancel_download sets the flag of the token found in the map
cancel_download(id) ==
    /\ active_downloads[id] # None
    /\ cancelled' = cancelled \cup {active_downloads[id][1]}
    /\ UNCHANGED <<disk, active_downloads, downloading_progress, dl, dlCalls>>

\* lines 457-463 for an id that is not in the map: nothing changes
cancel_download_absent(id) ==
    /\ active_downloads[id] = None
    /\ UNCHANGED <<disk, active_downloads, downloading_progress, cancelled, dl,
                   dlCalls>>

----------------------------------------------------------------------------
(* commands/model.rs: delete_model *)

\* ids the delete_model caller passes; W has no directory
DeleteIds == {"X", "Y", "W", "legacy"}

DelIdleFrame == [pc |-> "idle", id |-> "", result |-> "none", err |-> "none"]

\* lines 472-484: the active-model check under the current_model_id lock,
\* then the check for the legacy id
DelCheck(id) ==
    /\ del.pc \in {"idle", "done"}
    /\ delCalls < MaxDeleteCalls
    /\ delCalls' = delCalls + 1
    /\ del' = IF current_model_id = Some(id)
              THEN [pc |-> "done", id |-> id, result |-> "Err",
                    err |-> "active_model"]
              ELSE IF id = "legacy"
              THEN [pc |-> "done", id |-> id, result |-> "Err",
                    err |-> "legacy"]
              ELSE [pc |-> "remove", id |-> id, result |-> "none",
                    err |-> "none"]
    /\ UNCHANGED <<mgrVars, disk, swVars>>

\* lines 486-493: remove_dir_all of an existing directory; its failure
\* returns through `?`
DelRemove(ok) ==
    /\ del.pc = "remove"
    /\ LET d == get_model_dir(del.id)
       IN  IF disk[d] = None
           THEN /\ del' = [del EXCEPT !.pc = "done", !.result = "Ok"]
                /\ UNCHANGED disk
           ELSE IF ok
           THEN /\ del' = [del EXCEPT !.pc = "done", !.result = "Ok"]
                /\ disk' = [disk EXCEPT ![d] = None]
           ELSE /\ del' = [del EXCEPT !.pc = "done", !.result = "Err",
                                      !.err = "remove"]
                /\ UNCHANGED disk
    /\ UNCHANGED <<mgrVars, swVars, delCalls>>

\* no delete_model call has been made
InitDeletes ==
    /\ del = DelIdleFrame
    /\ delCalls = 0

----------------------------------------------------------------------------
(* commands/streaming.rs: the accumulation of tool-call deltas *)

\* lines 45-50: AccumulatedToolCall, and its Default
AccumulatedToolCall(id, name, arguments) ==
    [id |-> id, name |-> name, arguments |-> arguments]
DefaultToolCall == AccumulatedToolCall("", "", <<>>)

\* lines 270-273: while tool_calls.len() <= idx, push a default entry
RECURSIVE EnsureSlots(_, _)
EnsureSlots(calls, idx) ==
    IF Len(calls) <= idx
    THEN EnsureSlots(Append(calls, DefaultToolCall), idx)
    ELSE calls

\* lines 285-287 with the fragment replacing the text instead of extending it
MergeDelta_ArgumentsReplaced(calls, d) ==
    LET grown == EnsureSlots(calls, d.index)
        slot == grown[d.index + 1]
        withId == IF d.id # None THEN [slot EXCEPT !.id = d.id[1]] ELSE slot
        func == d.function
        withName == IF func # None /\ func[1].name # None
                    THEN [withId EXCEPT !.name = func[1].name[1]]
                    ELSE withId
        withArgs == IF func # None /\ func[1].arguments # None
                    THEN [withName EXCEPT !.arguments = func[1].arguments[1]]
                    ELSE withName
    IN  [grown EXCEPT ![d.index + 1] = withArgs]

\* lines 267-289, the body of the loop for one tc_delta
MergeDelta(calls, d) ==
    LET grown == EnsureSlots(calls, d.index)
        slot == grown[d.index + 1]
        withId == IF d.id # None THEN [slot EXCEPT !.id = d.id[1]] ELSE slot
        func == d.function
        withName == IF func # None /\ func[1].name # None
                    THEN [withId EXCEPT !.name = func[1].name[1]]
                    ELSE withId
        withArgs == IF func # None /\ func[1].arguments # None
                    THEN [withName EXCEPT
                             !.arguments = @ \o func[1].arguments[1]]
                    ELSE withName
    IN  [grown EXCEPT ![d.index + 1] = withArgs]

\* lines 266-290: for tc_delta in tc_deltas
RECURSIVE MergeDeltas(_, _)
MergeDeltas(calls, ds) ==
    IF ds = <<>> THEN calls
    ELSE MergeDeltas(MergeDelta(calls, Head(ds)), Tail(ds))

\* one more tool-call delta of the stream arrives and is merged
AccDelta(d) ==
    /\ Len(tc_deltas) < MaxDeltas
    /\ tc_deltas' = Append(tc_deltas, d)
    /\ tool_calls' = MergeDelta(tool_calls, d)

\* line 221: the list is empty when the stream starts
InitAcc ==
    /\ tc_deltas = <<>>
    /\ tool_calls = <<>>

----------------------------------------------------------------------------
(* commands/streaming.rs: chat_stream; commands/chat.rs: cancel_generation *)

\* line 193
MAX_TOOL_ITERATIONS == 10

\* types/openai.rs lines 53-58: OpenAIDelta, the delta of the first choice
OpenAIDelta(content, reasoning_content, tcs) ==
    [content |-> content, reasoning_content |-> reasoning_content,
     tool_calls |-> tcs]

\* the deltas the server sends in a chat turn: visible text, reasoning text,
\* a tool call at index 0 with an argument fragment next to empty content,
\* and a tool call at index 1
TextDeltas ==
    {OpenAIDelta(Some(<<"h">>), None, None),
     OpenAIDelta(None, Some(<<"r">>), None)}
ToolDeltas ==
    {OpenAIDelta(Some(<<>>), None,
        Some(<<ToolCallDelta(0, Some("a"),
                 Some(FunctionCallDelta(Some("calculator"), Some(<<"x">>))))>>)),
     OpenAIDelta(None, None,
        Some(<<ToolCallDelta(1, Some("b"),
                 Some(FunctionCallDelta(Some("calculator"), None)))>>))}

\* what es.next().await yields: Event::Open, a message ([DONE], one that
\* parses to a delta, one that does not parse or has no choice), an error of
\* the event source, or the end of the stream
StreamEvents ==
    {[kind |-> k] : k \in {"open", "done", "unparsed", "error", "end"}} \cup
    {[kind |-> "delta", delta |-> d] : d \in TextDeltas \cup ToolDeltas}

\* a row of the messages table (db.rs lines 104-130)
Message(chat_id, role, content, thinking) ==
    [conversation_id |-> chat_id, role |-> role, content |-> content,
     thinking |-> thinking, duration_ms |-> None]

\* the row of a message saved with Some(duration_ms)
Timed(m, duration_ms) == [m EXCEPT !.duration_ms = Some(duration_ms)]

\* the chat id and the prompt the callers pass
ChatIds == {"c1"}
Prompt == <<"q">>

ChIdleFrame ==
    [pc |-> "idle", n |-> 0, chat_id |-> "", iteration |-> 0, requests |-> 0,
     tool_calls |-> <<>>, tc |-> 0, seen |-> 0, opened |-> FALSE,
     refused |-> FALSE, full_response_content |-> <<>>,
     full_response_thinking |-> <<>>, events |-> {}, stored |-> FALSE,
     user_row |-> 0, history_msgs |-> <<>>, cancel_seen |-> FALSE,
     result |-> "none", err |-> "none"]

SetCh(p, f) == ch' = [ch EXCEPT ![p] = f]

\* the call returns: its locals are dropped
ChFinish(p, f, res, err) ==
    SetCh(p, [f EXCEPT !.pc = "done", !.result = res, !.err = err,
                       !.tool_calls = <<>>, !.tc = 0, !.seen = 0,
                       !.opened = FALSE, !.full_response_content = <<>>,
                       !.full_response_thinking = <<>>,
                       !.history_msgs = <<>>])

\* app.emit(name, ..): the event is delivered or the emit fails
Emit(f, name, ok) == IF ok THEN [f EXCEPT !.events = @ \cup {name}] ELSE f

\* db.rs lines 104-140, insert_message after open_db: the INSERT fails (or
\* the database cannot be opened), the INSERT succeeds and the UPDATE of the
\* conversation fails, or both succeed
InsertOutcomes == {"insert_err", "update_err", "ok"}
insert_message(o, m) ==
    messages' = IF o = "insert_err" THEN messages ELSE Append(messages, m)

\* lines 67-74: the call starts and resets the cancellation flag
ChStartWithin(p, id, calls) ==
    /\ ch[p].pc \in {"idle", "done"}
    /\ chCalls < calls
    /\ chCalls' = chCalls + 1
    /\ is_cancelled' = FALSE
    /\ SetCh(p, [ChIdleFrame EXCEPT !.pc = "save_user", !.chat_id = id,
                                    !.n = chCalls + 1])
    /\ UNCHANGED messages

ChStart(p, id) == ChStartWithin(p, id, MaxChatCalls)

\* the row a successful INSERT of outcome o adds to the table, 0 if none
InsertedRow(o) == IF o = "insert_err" THEN 0 ELSE Len(messages) + 1

\* lines 76-80 with a failure of the save not returned
ChSaveUser_FailureIgnored(p, o) ==
    /\ ch[p].pc = "save_user"
    /\ insert_message(o, Message(ch[p].chat_id, "user", Prompt, <<>>))
    /\ SetCh(p, [ch[p] EXCEPT !.pc = "history", !.user_row = InsertedRow(o)])
    /\ UNCHANGED <<is_cancelled, chCalls>>

\* lines 76-80: the user message is saved; a failure returns through `?`
ChSaveUser(p, o) ==
    /\ ch[p].pc = "save_user"
    /\ insert_message(o, Message(ch[p].chat_id, "user", Prompt, <<>>))
    /\ LET f == [ch[p] EXCEPT !.user_row = InsertedRow(o)]
       IN  IF o = "ok"
           THEN SetCh(p, [f EXCEPT !.pc = "history"])
           ELSE ChFinish(p, f, "Err", "save_user")
    /\ UNCHANGED <<is_cancelled, chCalls>>

\* lines 85-115: the rows of the chat ordered by created_at, which
\* insert_message takes from the clock (db.rs line 113): the order of
\* insertion.  A row is named by its place in the table
RECURSIVE RowsOfChat(_, _)
RowsOfChat(chat_id, n) ==
    IF n = 0 THEN <<>>
    ELSE RowsOfChat(chat_id, n - 1) \o
         (IF messages[n].conversation_id = chat_id THEN <<n>> ELSE <<>>)

\* lines 147-152: the last HISTORY_TURNS messages
HISTORY_TURNS == 20
Recent(history_msgs) ==
    IF Len(history_msgs) > HISTORY_TURNS
    THEN SubSeq(history_msgs, Len(history_msgs) - HISTORY_TURNS + 1,
                Len(history_msgs))
    ELSE history_msgs

\* lines 82-177: the history is loaded and the request messages are built
\* from the settings and the history; a failing query returns through `?`
ChHistory(p, ok) ==
    /\ ch[p].pc = "history"
    /\ IF ok
       THEN SetCh(p, [ch[p] EXCEPT
                        !.pc = "begin",
                        !.history_msgs =
                            RowsOfChat(ch[p].chat_id, Len(messages))])
       ELSE ChFinish(p, ch[p], "Err", "history")
    /\ UNCHANGED <<is_cancelled, messages, chCalls>>

\* lines 179-190: chat:begin is emitted; a failing emit returns through `?`
ChBegin(p, ok) ==
    /\ ch[p].pc = "begin"
    /\ IF ok
       THEN SetCh(p, [Emit(ch[p], "chat:begin", TRUE) EXCEPT !.pc = "loop"])
       ELSE ChFinish(p, ch[p], "Err", "emit_begin")
    /\ UNCHANGED <<is_cancelled, messages, chCalls>>

\* lines 195-198 with the range of the loop exhausted reported as an error
ChLoop_ExhaustionIsError(p) ==
    /\ ch[p].pc = "loop"
    /\ IF ch[p].iteration >= MAX_TOOL_ITERATIONS
       THEN ChFinish(p, ch[p], "Err", "iterations")
       ELSE IF is_cancelled
       THEN SetCh(p, [ch[p] EXCEPT !.pc = "persist", !.cancel_seen = TRUE])
       ELSE SetCh(p, [ch[p] EXCEPT !.pc = "request"])
    /\ UNCHANGED <<is_cancelled, messages, chCalls>>

\* lines 195-198: the head of `for iteration in 0..MAX_TOOL_ITERATIONS`, then
\* the load of the cancellation flag
ChLoop(p) ==
    /\ ch[p].pc = "loop"
    /\ IF ch[p].iteration >= MAX_TOOL_ITERATIONS
       THEN SetCh(p, [ch[p] EXCEPT !.pc = "persist"])
       ELSE IF is_cancelled
       THEN SetCh(p, [ch[p] EXCEPT !.pc = "persist", !.cancel_seen = TRUE])
       ELSE SetCh(p, [ch[p] EXCEPT !.pc = "request"])
    /\ UNCHANGED <<is_cancelled, messages, chCalls>>

\* lines 200-221: the request is built and handed to EventSource::new, which
\* fails when the request cannot be constructed; the failure returns through
\* `?`
ChRequest(p, ok) ==
    /\ ch[p].pc = "request"
    /\ IF ok
       THEN SetCh(p, [ch[p] EXCEPT !.pc = "stream", !.requests = @ + 1,
                                  !.tool_calls = <<>>, !.seen = 0,
                                  !.opened = FALSE])
       ELSE ChFinish(p, ch[p], "Err", "request")
    /\ UNCHANGED <<is_cancelled, messages, chCalls>>

\* lines 301-304: after the stream, no accumulated tool call ends the loop
AfterStream(f) ==
    IF f.tool_calls = <<>>
    THEN [f EXCEPT !.pc = "persist"]
    ELSE [f EXCEPT !.pc = "tool", !.tc = 0]

\* lines 237-291: a parsed delta: text is appended and chat:delta emitted
\* (its result discarded), tool-call deltas are merged
OnDelta(f, d, emitOk) ==
    LET content_delta == IF d.content = None THEN <<>> ELSE d.content[1]
        reasoning_delta == IF d.reasoning_content = None THEN <<>>
                           ELSE d.reasoning_content[1]
        f1 == [f EXCEPT !.full_response_content = @ \o content_delta,
                        !.full_response_thinking = @ \o reasoning_delta]
        f2 == IF content_delta # <<>> \/ reasoning_delta # <<>>
              THEN Emit(f1, "chat:delta", emitOk) ELSE f1
    IN  IF d.tool_calls = None THEN f2
        ELSE [f2 EXCEPT !.tool_calls = MergeDeltas(@, d.tool_calls[1])]

\* the server answers a request with Event::Open first; an error before it
\* is a connection that could not be opened
Deliverable(f, e) ==
    CASE e.kind = "open"  -> ~f.opened
      [] e.kind = "error" -> TRUE
      [] e.kind = "end"   -> f.opened
      [] e.kind = "done"  -> f.opened
      [] e.kind = "unparsed" -> f.opened /\ f.seen < MaxStreamEvents
      [] e.kind = "delta" ->
            /\ f.opened
            /\ f.seen < MaxStreamEvents
            /\ e.delta \in TextDeltas =>
                  Len(f.full_response_content) + Len(f.full_response_thinking)
                      < MaxText

\* lines 224-299: one turn of `while let Some(event) = es.next().await`
ChEvent(p, e, emitOk) ==
    /\ ch[p].pc = "stream"
    /\ Deliverable(ch[p], e)
    /\ LET f == ch[p]
       IN  IF e.kind = "end" THEN SetCh(p, AfterStream(f))
           ELSE IF is_cancelled
           THEN SetCh(p, AfterStream([f EXCEPT !.cancel_seen = TRUE]))
           ELSE CASE e.kind = "open" -> SetCh(p, [f EXCEPT !.opened = TRUE])
                  [] e.kind = "done" -> SetCh(p, AfterStream(f))
                  [] e.kind = "unparsed" ->
                        SetCh(p, [f EXCEPT !.seen = @ + 1])
                  [] e.kind = "delta" ->
                        SetCh(p, [OnDelta(f, e.delta, emitOk)
                                     EXCEPT !.seen = @ + 1])
                  [] e.kind = "error" ->
                        SetCh(p, AfterStream(
                            [f EXCEPT !.refused = @ \/ ~f.opened]))
    /\ UNCHANGED <<is_cancelled, messages, chCalls>>

\* lines 338-363: the next tool call of the iteration: tool:calling is
\* emitted (its result discarded) and execute_tool is awaited
ChToolCall(p, emitOk) ==
    /\ ch[p].pc = "tool"
    /\ SetCh(p, [Emit(ch[p], "tool:calling", emitOk)
                    EXCEPT !.pc = "tool_running"])
    /\ UNCHANGED <<is_cancelled, messages, chCalls>>

\* lines 363-390: execute_tool has returned: tool:result is emitted (its
\* result discarded) and the result joins the conversation; after the last
\* tool call the next iteration begins
ChToolResult(p, emitOk) ==
    /\ ch[p].pc = "tool_running"
    /\ LET f == [Emit(ch[p], "tool:result", emitOk) EXCEPT !.tc = @ + 1]
       IN  IF f.tc < Len(f.tool_calls)
           THEN SetCh(p, [f EXCEPT !.pc = "tool"])
           ELSE SetCh(p, [f EXCEPT !.pc = "loop", !.iteration = @ + 1,
                                   !.tool_calls = <<>>, !.tc = 0,
                                   !.seen = 0, !.opened = FALSE])
    /\ UNCHANGED <<is_cancelled, messages, chCalls>>

\* lines 393-407: the assistant message is saved; a failure returns through
\* `?`
ChPersist(p, o) ==
    /\ ch[p].pc = "persist"
    /\ insert_message(o, Message(ch[p].chat_id, "assistant",
                                 ch[p].full_response_content,
                                 ch[p].full_response_thinking))
    /\ IF o = "ok"
       THEN SetCh(p, [ch[p] EXCEPT !.pc = "end", !.stored = TRUE])
       ELSE ChFinish(p, [ch[p] EXCEPT !.stored = (o # "insert_err")],
                     "Err", "persist")
    /\ UNCHANGED <<is_cancelled, chCalls>>

\* lines 409-421: chat:end is emitted, a failing emit returns through `?`;
\* then chats:changed (its result discarded) and Ok
ChEnd(p, ok, emitOk) ==
    /\ ch[p].pc = "end"
    /\ IF ok
       THEN ChFinish(p, Emit(Emit(ch[p], "chat:end", TRUE),
                             "chats:changed", emitOk), "Ok", "none")
       ELSE ChFinish(p, ch[p], "Err", "emit_end")
    /\ UNCHANGED <<is_cancelled, messages, chCalls>>

\* chat.rs lines 290-294
cancel_generation ==
    /\ is_cancelled' = TRUE
    /\ UNCHANGED <<messages, ch, chCalls>>

\* lib.rs line 1511 and a database without messages
InitChats ==
    /\ is_cancelled = FALSE
    /\ messages = <<>>
    /\ ch = [p \in ChProcs |-> ChIdleFrame]
    /\ chCalls = 0

----------------------------------------------------------------------------
(* tools/executor.rs, tools/implementations/calculator.rs: execute_tool.    *)
(* Text is a sequence of tokens: a punctuation mark or a string literal.    *)

Punct(c) == [t |-> "punct", s |-> <<c>>]
Str(chars) == [t |-> "str", s |-> chars]

\* the text {"<key>":"<value>"}
ObjectText(key, value) ==
    <<Punct("{"), Str(<<key>>), Punct(":"), Str(value), Punct("}")>>

\* serde_json::from_str::<Value>: an object is a set of <<key, value>>
\* pairs; text that is not a complete object does not parse
from_str(text) ==
    IF text = <<Punct("{"), Punct("}")>> THEN Some({})
    ELSE IF /\ Len(text) = 5
            /\ text[1] = Punct("{") /\ text[2].t = "str"
            /\ text[3] = Punct(":") /\ text[4].t = "str"
            /\ text[5] = Punct("}")
    THEN Some({<<text[2].s[1], text[4].s>>})
    ELSE None

\* streaming.rs lines 339-340: from_str(..).unwrap_or(Value::Object(..))
ParseArguments(text) ==
    IF from_str(text) = None THEN {} ELSE from_str(text)[1]

\* types.rs lines 43-61
ToolCallResult_success(call_id, output) ==
    [call_id |-> call_id, success |-> TRUE, output |-> output, error |-> None]
ToolCallResult_error(call_id, error) ==
    [call_id |-> call_id, success |-> FALSE, output |-> <<>>,
     error |-> Some(error)]

\* types.rs lines 26-32
ToolCallRequest(tool_id, call_id, arguments) ==
    [tool_id |-> tool_id, call_id |-> call_id, arguments |-> arguments]

Digits == {"0", "1", "2", "3", "4", "5", "6", "7", "8", "9"}
DigitValue(c) ==
    CASE c = "0" -> 0 [] c = "1" -> 1 [] c = "2" -> 2 [] c = "3" -> 3
      [] c = "4" -> 4 [] c = "5" -> 5 [] c = "6" -> 6 [] c = "7" -> 7
      [] c = "8" -> 8 [] c = "9" -> 9
DigitChar(n) ==
    CASE n = 0 -> "0" [] n = 1 -> "1" [] n = 2 -> "2" [] n = 3 -> "3"
      [] n = 4 -> "4" [] n = 5 -> "5" [] n = 6 -> "6" [] n = 7 -> "7"
      [] n = 8 -> "8" [] n = 9 -> "9"

\* format!("{}", n) of a non-negative i64
RECURSIVE Decimal(_)
Decimal(n) ==
    IF n < 10 THEN <<DigitChar(n)>>
    ELSE Append(Decimal(n \div 10), DigitChar(n % 10))

\* str::trim
RECURSIVE TrimStart(_)
TrimStart(s) ==
    IF s # <<>> /\ Head(s) = " " THEN TrimStart(Tail(s)) ELSE s
RECURSIVE TrimEnd(_)
TrimEnd(s) ==
    IF s # <<>> /\ s[Len(s)] = " "
    THEN TrimEnd(SubSeq(s, 1, Len(s) - 1)) ELSE s
Trim(s) == TrimEnd(TrimStart(s))

\* calculator.rs lines 19-23: the three replacements
Cleaned(expression) ==
    LET t == Trim(expression)
    IN  [i \in 1 .. Len(t) |->
            CASE t[i] = "×" -> "*"
              [] t[i] = "÷" -> "/"
              [] t[i] = "^" -> ".powf"
              [] OTHER -> t[i]]

\* meval::eval_str on sums and products of one-digit numbers, blanks
\* skipped; anything else is an error (None)
RECURSIVE NoBlanks(_)
NoBlanks(s) ==
    IF s = <<>> THEN <<>>
    ELSE IF Head(s) = " " THEN NoBlanks(Tail(s))
    ELSE <<Head(s)>> \o NoBlanks(Tail(s))

WellFormed(s) ==
    /\ Len(s) % 2 = 1
    /\ \A i \in 1 .. Len(s) :
          IF i % 2 = 1 THEN s[i] \in Digits ELSE s[i] \in {"+", "*"}

\* the value of a well-formed s: acc is the sum of the finished terms, term
\* the product being read
RECURSIVE EvalFrom(_, _, _, _)
EvalFrom(s, i, acc, term) ==
    IF i > Len(s) THEN acc + term
    ELSE IF s[i - 1] = "+"
    THEN EvalFrom(s, i + 2, acc + term, DigitValue(s[i]))
    ELSE EvalFrom(s, i + 2, acc, term * DigitValue(s[i]))

eval_str(text) ==
    LET s == NoBlanks(text)
    IN  IF WellFormed(s)
        THEN Some(EvalFrom(s, 3, 0, DigitValue(s[1])))
        ELSE None

\* calculator.rs lines 7-41
calculator_execute(request) ==
    IF \A kv \in request.arguments : kv[1] # "expression"
    THEN ToolCallResult_error(request.call_id,
                              <<"Missing required parameter: expression">>)
    ELSE LET expression ==
                 (CHOOSE kv \in request.arguments : kv[1] = "expression")[2]
             value == eval_str(Cleaned(expression))
         IN  IF value # None
             THEN ToolCallResult_success(request.call_id,
                      expression \o <<" ", "=", " ">> \o Decimal(value[1]))
             ELSE ToolCallResult_error(request.call_id,
                      <<"Failed to evaluate expression">>)

\* executor.rs lines 6-18; of the tools only the calculator is modelled, a
\* call of another known tool is not among the inputs
execute_tool(request) ==
    IF request.tool_id = "calculator" THEN calculator_execute(request)
    ELSE ToolCallResult_error(request.call_id, <<"Unknown tool">>)

----------------------------------------------------------------------------
(* tools/registry.rs, tools/openai_format.rs, commands/tools.rs *)

\* tools/types.rs lines 14-24: ToolDefinition, its parameters object by the
\* names it requires
ToolDefinition(id, name, description, required) ==
    [id |-> id, name |-> name, description |-> description,
     parameters |-> [type |-> "object", required |-> required]]

\* tools/registry.rs lines 8-110
BUILT_IN_TOOLS ==
    <<ToolDefinition("wikipedia", "Wikipedia",
                     "Search and retrieve Wikipedia articles", <<"query">>),
      ToolDefinition("web_search", "Web Search",
                     "Search the web using DuckDuckGo", <<"query">>),
      ToolDefinition("filesystem", "File System",
                     "Read, write, and list files on your computer",
                     <<"operation", "path">>),
      ToolDefinition("shell", "Shell", "Execute shell commands",
                     <<"command">>),
      ToolDefinition("calculator", "Calculator",
                     "Evaluate mathematical expressions", <<"expression">>)>>

\* tools/registry.rs lines 112-118
get_all_tools == BUILT_IN_TOOLS
get_tool_by_id(id) ==
    IF \E i \in DOMAIN BUILT_IN_TOOLS : BUILT_IN_TOOLS[i].id = id
    THEN Some(BUILT_IN_TOOLS[CHOOSE i \in DOMAIN BUILT_IN_TOOLS :
                                BUILT_IN_TOOLS[i].id = id])
    ELSE None

\* tools/openai_format.rs lines 8-22 with the display name for the id
tools_to_openai_format_NameOfTool(tools) ==
    [i \in DOMAIN tools |->
        [type |-> "function",
         function |-> [name |-> tools[i].name,
                       description |-> tools[i].description,
                       parameters |-> tools[i].parameters]]]

\* tools/openai_format.rs lines 8-22
tools_to_openai_format(tools) ==
    [i \in DOMAIN tools |->
        [type |-> "function",
         function |-> [name |-> tools[i].id,
                       description |-> tools[i].description,
                       parameters |-> tools[i].parameters]]]

\* Vec::contains
contains(list, x) == \E i \in DOMAIN list : list[i] = x

\* streaming.rs lines 128-138: the registry filtered by the enabled ids, and
\* the list a request carries: None when no registered tool is enabled
tools_json(enabled_tool_ids) ==
    LET Enabled(t) == contains(enabled_tool_ids, t.id)
        tools == SelectSeq(get_all_tools, Enabled)
    IN  IF tools = <<>> THEN None ELSE Some(tools_to_openai_format(tools))

\* commands/tools.rs lines 40-70: an unknown id is refused; an id is pushed
\* when it is not in the list, or every occurrence of it removed.  The list
\* is changed before save_settings runs, whether or not the save succeeds
cmd_toggle_tool(tool_id, enabled) ==
    enabled_tools' =
        IF get_tool_by_id(tool_id) = None THEN enabled_tools
        ELSE IF enabled
        THEN IF contains(enabled_tools, tool_id) THEN enabled_tools
             ELSE Append(enabled_tools, tool_id)
        ELSE LET Other(id) == id # tool_id
             IN  SelectSeq(enabled_tools, Other)

----------------------------------------------------------------------------
(* commands/streaming.rs: chat_stream from the tool loop on (lines 192-422), *)
(* one turn with the conversation, the requests and the events in full      *)

\* ConversationMessage (lines 53-59)
Standard(role, content) ==
    [kind |-> "Standard", role |-> role, content |-> content]
AssistantWithTools(content, calls) ==
    [kind |-> "AssistantWithTools", role |-> "assistant",
     content |-> content, tool_calls |-> calls]
ToolResult(tool_call_id, content) ==
    [kind |-> "ToolResult", role |-> "tool",
     tool_call_id |-> tool_call_id, content |-> content]

\* lines 313-323: ToolCall built from an accumulated call
ToolCall(tc) ==
    [id |-> tc.id, type |-> "function",
     function |-> [name |-> tc.name, arguments |-> tc.arguments]]

\* the expressions the model asks for: a sum and a malformed one
TwoPlusTwo == <<"2", "+", "2">>
Malformed == <<"2", "+", "+", "2">>

\* a delta that carries a whole tool call, and the two halves of one
WholeCall(name, expression) ==
    OpenAIDelta(None, None,
        Some(<<ToolCallDelta(0, Some("call_1"),
                 Some(FunctionCallDelta(Some(name),
                        Some(ObjectText("expression", expression)))))>>))
FirstHalf ==
    OpenAIDelta(None, None,
        Some(<<ToolCallDelta(0, Some("call_1"),
                 Some(FunctionCallDelta(Some("calculator"),
                        Some(SubSeq(ObjectText("expression", TwoPlusTwo),
                                    1, 3)))))>>))
SecondHalf ==
    OpenAIDelta(None, None,
        Some(<<ToolCallDelta(0, None,
                 Some(FunctionCallDelta(None,
                        Some(SubSeq(ObjectText("expression", TwoPlusTwo),
                                    4, 5)))))>>))
AnswerText == OpenAIDelta(Some(<<"4">>), None, None)

\* reasoning text, both texts in one message, a message that carries none,
\* and a tool call at index 1
ReasoningText == OpenAIDelta(None, Some(<<"r">>), None)
BothTexts == OpenAIDelta(Some(<<"a">>), Some(<<"r">>), None)
EmptyDelta == OpenAIDelta(None, None, None)
SecondCall ==
    OpenAIDelta(None, None,
        Some(<<ToolCallDelta(1, Some("call_2"),
                 Some(FunctionCallDelta(Some("calculator"),
                        Some(ObjectText("expression", TwoPlusTwo)))))>>))

\* lines 237-238: a message whose data does not parse as a stream response,
\* and one that parses with an empty list of choices
SkippedMessages == {[data |-> "garbage"], [data |-> "no choices"]}

TurnToolDeltas ==
    {WholeCall("calculator", TwoPlusTwo), WholeCall("calculator", Malformed),
     WholeCall("abacus", TwoPlusTwo), FirstHalf, SecondHalf}
TurnStreamEvents ==
    {[kind |-> k] : k \in {"open", "done", "error", "end"}} \cup
    {[kind |-> "delta", delta |-> d] : d \in TurnToolDeltas \cup {AnswerText}}

\* app.emit(name, payload) and whether it delivered the event
Emitted(name, payload, ok) == [name |-> name, payload |-> payload, ok |-> ok]

\* lines 140-190: the turn after chat:begin: the system prompt and the
\* history, here the saved prompt, are the conversation
TurnFrame ==
    [pc |-> "loop", chat_id |-> "c1", iteration |-> 0,
     conversation_messages |->
        <<Standard("system", <<"s">>), Standard("user", Prompt)>>,
     requests |-> <<>>, streams |-> <<>>, tool_calls |-> <<>>, tc |-> 0,
     arguments |-> {}, opened |-> FALSE, iteration_content |-> <<>>,
     full_response_content |-> <<>>, emitted |-> <<>>,
     insert |-> "none", saved_after |-> 0, result |-> "none", err |-> "none",
     iteration_thinking |-> <<>>, full_response_thinking |-> <<>>,
     enabled_tool_ids |-> <<"calculator">>,
     tools_json |-> tools_json(<<"calculator">>), request_tools |-> <<>>,
     ended |-> <<>>, discarded |-> {}, duration_ms |-> 0]

TurnReturn(f, res, err) ==
    turn' = [f EXCEPT !.pc = "done", !.result = res, !.err = err]

\* lines 195-198
TurnLoop ==
    /\ turn.pc = "loop"
    /\ turn' = IF turn.iteration >= MAX_TOOL_ITERATIONS \/ is_cancelled
               THEN [turn EXCEPT !.pc = "persist"]
               ELSE [turn EXCEPT !.pc = "request"]
    /\ UNCHANGED <<is_cancelled, messages, enabled_tools>>

\* lines 200-221: the request carries the conversation as it stands
TurnRequest(ok) ==
    /\ turn.pc = "request"
    /\ IF ok
       THEN turn' = [turn EXCEPT
                        !.pc = "stream",
                        !.requests = Append(@, turn.conversation_messages),
                        !.request_tools = Append(@, turn.tools_json),
                        !.streams = Append(@, <<>>),
                        !.tool_calls = <<>>, !.iteration_content = <<>>,
                        !.iteration_thinking = <<>>, !.opened = FALSE]
       ELSE TurnReturn(turn, "Err", "request")
    /\ UNCHANGED <<is_cancelled, messages, enabled_tools>>

\* lines 301-335 with the text of the iteration left out of the message
TurnAfterStream_ContentDropped(f) ==
    IF f.tool_calls = <<>>
    THEN [f EXCEPT !.pc = "persist"]
    ELSE [f EXCEPT
            !.pc = "tool", !.tc = 0,
            !.conversation_messages =
                Append(@, AssistantWithTools(
                    None,
                    [i \in 1 .. Len(f.tool_calls) |->
                        ToolCall(f.tool_calls[i])]))]

\* lines 301-335: no accumulated tool call ends the loop; otherwise the
\* assistant message with the tool calls joins the conversation
TurnAfterStream(f) ==
    IF f.tool_calls = <<>>
    THEN [f EXCEPT !.pc = "persist"]
    ELSE [f EXCEPT
            !.pc = "tool", !.tc = 0,
            !.conversation_messages =
                Append(@, AssistantWithTools(
                    IF f.iteration_content = <<>> THEN None
                    ELSE Some(f.iteration_content),
                    [i \in 1 .. Len(f.tool_calls) |->
                        ToolCall(f.tool_calls[i])]))]

\* lines 237-291 with the reasoning text kept for the iteration only
TurnOnDelta_ThinkingNotKept(f, d, emitOk) ==
    LET content_delta == IF d.content = None THEN <<>> ELSE d.content[1]
        reasoning_delta ==
            IF d.reasoning_content = None THEN <<>>
            ELSE d.reasoning_content[1]
        f1 == IF content_delta = <<>> THEN f
              ELSE [f EXCEPT !.iteration_content = @ \o content_delta,
                             !.full_response_content = @ \o content_delta]
        f2 == IF reasoning_delta = <<>> THEN f1
              ELSE [f1 EXCEPT !.iteration_thinking = @ \o reasoning_delta]
        f3 == IF content_delta = <<>> /\ reasoning_delta = <<>> THEN f2
              ELSE [f2 EXCEPT !.emitted = Append(@,
                       Emitted("chat:delta",
                               [delta |-> content_delta,
                                reasoning_delta |-> reasoning_delta],
                               emitOk))]
    IN  IF d.tool_calls = None THEN f3
        ELSE [f3 EXCEPT !.tool_calls = MergeDeltas(@, d.tool_calls[1])]

\* lines 237-291 for the delta of the first choice of a parsed message
TurnOnDelta(f, d, emitOk) ==
    LET content_delta == IF d.content = None THEN <<>> ELSE d.content[1]
        reasoning_delta ==
            IF d.reasoning_content = None THEN <<>>
            ELSE d.reasoning_content[1]
        f1 == IF content_delta = <<>> THEN f
              ELSE [f EXCEPT !.iteration_content = @ \o content_delta,
                             !.full_response_content = @ \o content_delta]
        f2 == IF reasoning_delta = <<>> THEN f1
              ELSE [f1 EXCEPT !.iteration_thinking = @ \o reasoning_delta,
                              !.full_response_thinking = @ \o reasoning_delta]
        f3 == IF content_delta = <<>> /\ reasoning_delta = <<>> THEN f2
              ELSE [f2 EXCEPT !.emitted = Append(@,
                       Emitted("chat:delta",
                               [delta |-> content_delta,
                                reasoning_delta |-> reasoning_delta],
                               emitOk))]
    IN  IF d.tool_calls = None THEN f3
        ELSE [f3 EXCEPT !.tool_calls = MergeDeltas(@, d.tool_calls[1])]

\* the server opens the stream first, sends at most MaxStreamEvents
\* messages, and asks for tools in the first MaxToolRounds rounds only
TurnDeliverable(f, e) ==
    CASE e.kind = "open"  -> ~f.opened
      [] e.kind = "error" -> TRUE
      [] e.kind = "end"   -> f.opened
      [] e.kind = "done"  -> f.opened
      [] e.kind = "message" ->
            /\ f.opened
            /\ Len(f.streams[Len(f.streams)]) < MaxStreamEvents
      [] e.kind = "delta" ->
            /\ f.opened
            /\ Len(f.streams[Len(f.streams)]) < MaxStreamEvents
            /\ e.delta.tool_calls # None => f.iteration < MaxToolRounds

\* lines 224-299 with a message that does not parse ending the stream
TurnEvent_SkippedEndsStream(e, emitOk) ==
    /\ turn.pc = "stream"
    /\ TurnDeliverable(turn, e)
    /\ LET n == Len(turn.streams)
           f == CASE e.kind = "delta" ->
                       [turn EXCEPT !.streams[n] = Append(@, e.delta)]
                  [] e.kind = "message" ->
                       [turn EXCEPT !.streams[n] = Append(@, [data |-> e.data])]
                  [] OTHER -> turn
           Ended(how) == TurnAfterStream([f EXCEPT !.ended = Append(@, how)])
       IN  turn' =
             IF e.kind = "end" THEN Ended("end")
             ELSE IF is_cancelled
             THEN TurnAfterStream(
                    [f EXCEPT !.ended = Append(@, "cancelled"),
                              !.discarded =
                                  IF e.kind \in {"delta", "message"}
                                  THEN @ \cup {n} ELSE @])
             ELSE CASE e.kind = "open" -> [f EXCEPT !.opened = TRUE]
                    [] e.kind = "done" -> Ended("done")
                    [] e.kind = "error" -> Ended("error")
                    [] e.kind = "message" -> Ended("error")
                    [] e.kind = "delta" -> TurnOnDelta(f, e.delta, emitOk)
    /\ UNCHANGED <<is_cancelled, messages, enabled_tools>>

\* lines 224-299: one turn of `while let Some(event) = es.next().await`.
\* streams records the messages the server sent, ended how each stream came
\* to its end, discarded the streams whose last message was taken with the
\* flag set and dropped unread
TurnEvent(e, emitOk) ==
    /\ turn.pc = "stream"
    /\ TurnDeliverable(turn, e)
    /\ LET n == Len(turn.streams)
           f == CASE e.kind = "delta" ->
                       [turn EXCEPT !.streams[n] = Append(@, e.delta)]
                  [] e.kind = "message" ->
                       [turn EXCEPT !.streams[n] = Append(@, [data |-> e.data])]
                  [] OTHER -> turn
           Ended(how) == TurnAfterStream([f EXCEPT !.ended = Append(@, how)])
       IN  turn' =
             IF e.kind = "end" THEN Ended("end")
             ELSE IF is_cancelled
             THEN TurnAfterStream(
                    [f EXCEPT !.ended = Append(@, "cancelled"),
                              !.discarded =
                                  IF e.kind \in {"delta", "message"}
                                  THEN @ \cup {n} ELSE @])
             ELSE CASE e.kind = "open" -> [f EXCEPT !.opened = TRUE]
                    [] e.kind = "done" -> Ended("done")
                    [] e.kind = "error" -> Ended("error")
                    [] e.kind = "message" -> f
                    [] e.kind = "delta" -> TurnOnDelta(f, e.delta, emitOk)
    /\ UNCHANGED <<is_cancelled, messages, enabled_tools>>

\* lines 338-361 with arguments that do not parse returned as an error
TurnToolCall_BadArgumentsAbort(emitOk) ==
    /\ turn.pc = "tool"
    /\ LET tc == turn.tool_calls[turn.tc + 1]
           arguments == ParseArguments(tc.arguments)
       IN  IF from_str(tc.arguments) = None
           THEN TurnReturn(turn, "Err", "arguments")
           ELSE turn' = [turn EXCEPT
                           !.pc = "tool_running", !.arguments = arguments,
                           !.emitted = Append(@, Emitted("tool:calling",
                               [tool_id |-> tc.name, call_id |-> tc.id,
                                arguments |-> arguments], emitOk))]
    /\ UNCHANGED <<is_cancelled, messages, enabled_tools>>

\* lines 338-361: the arguments of the next tool call are parsed and
\* tool:calling is emitted, its result discarded
TurnToolCall(emitOk) ==
    /\ turn.pc = "tool"
    /\ LET tc == turn.tool_calls[turn.tc + 1]
           arguments == ParseArguments(tc.arguments)
       IN  turn' = [turn EXCEPT
                       !.pc = "tool_running", !.arguments = arguments,
                       !.emitted = Append(@, Emitted("tool:calling",
                           [tool_id |-> tc.name, call_id |-> tc.id,
                            arguments |-> arguments], emitOk))]
    /\ UNCHANGED <<is_cancelled, messages, enabled_tools>>

\* lines 363-390 with the result not added to the conversation
TurnToolResult_ResultDropped(emitOk) ==
    /\ turn.pc = "tool_running"
    /\ LET tc == turn.tool_calls[turn.tc + 1]
           result == execute_tool(
                         ToolCallRequest(tc.name, tc.id, turn.arguments))
           f == [turn EXCEPT
                   !.tc = @ + 1, !.arguments = {},
                   !.emitted = Append(@, Emitted("tool:result",
                       [call_id |-> tc.id, tool_id |-> tc.name,
                        success |-> result.success,
                        output |-> result.output,
                        error |-> result.error], emitOk))]
       IN  turn' = IF f.tc < Len(f.tool_calls)
                   THEN [f EXCEPT !.pc = "tool"]
                   ELSE [f EXCEPT !.pc = "loop", !.iteration = @ + 1,
                                  !.tool_calls = <<>>, !.tc = 0]
    /\ UNCHANGED <<is_cancelled, messages, enabled_tools>>

\* lines 363-390: execute_tool has returned: tool:result is emitted (its
\* result discarded) and the result joins the conversation; after the last
\* tool call the next iteration begins
TurnToolResult(emitOk) ==
    /\ turn.pc = "tool_running"
    /\ LET tc == turn.tool_calls[turn.tc + 1]
           result == execute_tool(
                         ToolCallRequest(tc.name, tc.id, turn.arguments))
           result_content ==
               IF result.success THEN result.output
               ELSE <<"Error: ">> \o
                    (IF result.error = None THEN <<>> ELSE result.error[1])
           f == [turn EXCEPT
                   !.tc = @ + 1, !.arguments = {},
                   !.emitted = Append(@, Emitted("tool:result",
                       [call_id |-> tc.id, tool_id |-> tc.name,
                        success |-> result.success,
                        output |-> result.output,
                        error |-> result.error], emitOk)),
                   !.conversation_messages =
                       Append(@, ToolResult(tc.id, result_content))]
       IN  turn' = IF f.tc < Len(f.tool_calls)
                   THEN [f EXCEPT !.pc = "tool"]
                   ELSE [f EXCEPT !.pc = "loop", !.iteration = @ + 1,
                                  !.tool_calls = <<>>, !.tc = 0]
    /\ UNCHANGED <<is_cancelled, messages, enabled_tools>>

\* lines 393-407: the time since the start of the call is read once, and the
\* assistant message is saved with it; a failure returns through `?`.
\* saved_after is the number of requests sent before the save
TurnPersist(o, elapsed) ==
    /\ turn.pc = "persist"
    /\ insert_message(o, Timed(Message(turn.chat_id, "assistant",
                                       turn.full_response_content,
                                       turn.full_response_thinking),
                               elapsed))
    /\ LET f == [turn EXCEPT !.insert = o, !.duration_ms = elapsed,
                             !.saved_after = Len(turn.requests)]
       IN  IF o = "ok"
           THEN turn' = [f EXCEPT !.pc = "end"]
           ELSE TurnReturn(f, "Err", "persist")
    /\ UNCHANGED <<is_cancelled, enabled_tools>>

\* the payload of chat:end (types/chat.rs lines 73-77)
ChatEndPayload(chat_id, duration_ms) ==
    [chat_id |-> chat_id, duration_ms |-> duration_ms]

\* the time the call has taken, in ms: what start_time.elapsed() may return
MaxDuration == 2
Durations == 1..MaxDuration

\* lines 409-421 with the elapsed time read again for the payload
TurnEnd_ElapsedReadAgain(ok, emitOk) ==
    /\ turn.pc = "end"
    /\ IF ok
       THEN \E d \in Durations :
              TurnReturn(
                [turn EXCEPT !.emitted =
                    @ \o <<Emitted("chat:end",
                                   ChatEndPayload(turn.chat_id, d), TRUE),
                           Emitted("chats:changed", <<>>, emitOk)>>],
                "Ok", "none")
       ELSE TurnReturn(turn, "Err", "emit_end")
    /\ UNCHANGED <<is_cancelled, messages, enabled_tools>>

\* lines 409-421: chat:end carries the duration that was saved; a failing
\* emit returns through `?`, the result of chats:changed is discarded
TurnEnd(ok, emitOk) ==
    /\ turn.pc = "end"
    /\ IF ok
       THEN TurnReturn(
              [turn EXCEPT !.emitted =
                  @ \o <<Emitted("chat:end",
                                 ChatEndPayload(turn.chat_id,
                                                turn.duration_ms), TRUE),
                         Emitted("chats:changed", <<>>, emitOk)>>],
              "Ok", "none")
       ELSE TurnReturn(turn, "Err", "emit_end")
    /\ UNCHANGED <<is_cancelled, messages, enabled_tools>>

\* lines 118-186: the settings are read, the tool list is built from the
\* enabled ids, the conversation is built and chat:begin is emitted; a
\* failing emit returns through `?`
TurnSettings(ok) ==
    /\ turn.pc = "settings"
    /\ LET f == [turn EXCEPT !.enabled_tool_ids = enabled_tools,
                             !.tools_json = tools_json(enabled_tools)]
           begin == Emitted("chat:begin", [chat_id |-> turn.chat_id], ok)
       IN  IF ok
           THEN turn' = [f EXCEPT !.pc = "loop",
                                  !.emitted = Append(@, begin)]
           ELSE TurnReturn(f, "Err", "emit_begin")
    /\ UNCHANGED <<is_cancelled, messages, enabled_tools>>

\* no turn followed in full
\* no row with images, and nothing loaded
Loaders == {"get_chat_messages", "chat_stream"}
NoImages ==
    /\ image_rows = <<>>
    /\ loaded = [l \in Loaders |-> None]

NoTurn ==
    /\ turn = [TurnFrame EXCEPT !.pc = "idle"]
    /\ enabled_tools = <<"calculator">>
    /\ NoImages

----------------------------------------------------------------------------
(* The mutexes of LlamaServerManager (state.rs lines 17-30) and the order in *)
(* which each operation locks them, releases them and awaits                 *)

Mutexes ==
    {"process", "model_path", "mmproj_path", "current_model_id",
     "active_downloads", "downloading_progress", "app_settings"}

Lock(m) == [op |-> "lock", m |-> m, to |-> {}]
\* the guard is dropped: the end of its block or of the function
Unlock(m) == [op |-> "unlock", m |-> m, to |-> {}]
Await == [op |-> "await", m |-> "", to |-> {}]
\* a `return` the code may take here; the guards in scope are dropped
MayReturn == [op |-> "return", m |-> "", to |-> {}]
\* a branch or the back edge of a loop: the next instruction is one of `to`
Branch(to) == [op |-> "branch", m |-> "", to |-> to]

\* model.rs lines 26-89
ListModelsLocks ==
    <<Lock("current_model_id"), Lock("downloading_progress"),
      Unlock("downloading_progress"), Unlock("current_model_id")>>

\* model.rs lines 133-257 with the child stored while the server is awaited
SwitchModelLocks_HeldAcrossAwait ==
    <<Lock("process"), Unlock("process"),
      Lock("model_path"), Unlock("model_path"),
      Lock("mmproj_path"), Unlock("mmproj_path"),
      Lock("current_model_id"), Unlock("current_model_id"),
      Lock("app_settings"), Unlock("app_settings"),
      MayReturn,
      Lock("process"), Await, Unlock("process")>>

\* model.rs lines 133-257: the kill, the three stores, the settings, the
\* spawn (whose failure returns), the child stored, wait_for_server_ready
SwitchModelLocks ==
    <<Lock("process"), Unlock("process"),
      Lock("model_path"), Unlock("model_path"),
      Lock("mmproj_path"), Unlock("mmproj_path"),
      Lock("current_model_id"), Unlock("current_model_id"),
      Lock("app_settings"), Unlock("app_settings"),
      MayReturn,
      Lock("process"), Unlock("process"), Await>>

\* model.rs lines 292-441.  1-3: the check, which returns with the guard in
\* scope; 4-7: the registration; 8-19: the loop over the files with the loop
\* over the chunks inside; 20-23: the two removals, which the cancellation
\* and the HTTP error paths run as well before they return
DownloadModelLocks ==
    <<Lock("active_downloads"), MayReturn, Unlock("active_downloads"),
      Lock("active_downloads"), Unlock("active_downloads"),
      Lock("downloading_progress"), Unlock("downloading_progress"),
      Branch({9, 20}),
      Await,
      Branch({11, 20}),
      Await,
      Await,
      Branch({14, 18, 20}),
      Await,
      Lock("downloading_progress"), Unlock("downloading_progress"),
      Branch({12}),
      Await, Branch({8}),
      Lock("active_downloads"), Unlock("active_downloads"),
      Lock("downloading_progress"), Unlock("downloading_progress")>>

\* model.rs lines 450-464
CancelDownloadLocks ==
    <<Lock("active_downloads"), Unlock("active_downloads")>>

\* model.rs lines 466-494
DeleteModelLocks ==
    <<Lock("current_model_id"), MayReturn, Unlock("current_model_id")>>

\* tools.rs lines 40-70: save_settings runs, and may fail, under the guard
ToggleToolLocks ==
    <<Lock("app_settings"), MayReturn, Unlock("app_settings")>>

\* streaming.rs lines 119-126, then the awaits of the stream and the tools
ChatStreamLocks ==
    <<Lock("app_settings"), Unlock("app_settings"), Await, Await>>

Operations ==
    {"list_models", "switch_model", "download_model", "cancel_download",
     "delete_model", "cmd_toggle_tool", "chat_stream"}

LockProgram(o) ==
    CASE o = "list_models"     -> ListModelsLocks
      [] o = "switch_model"    -> SwitchModelLocks
      [] o = "download_model"  -> DownloadModelLocks
      [] o = "cancel_download" -> CancelDownloadLocks
      [] o = "delete_model"    -> DeleteModelLocks
      [] o = "cmd_toggle_tool" -> ToggleToolLocks
      [] o = "chat_stream"     -> ChatStreamLocks

Running(o) == lockpc[o] <= Len(LockProgram(o))
Instr(o) == LockProgram(o)[lockpc[o]]
Held(o) == {m \in Mutexes : owner[m] = o}

\* Mutex::lock: the caller goes on once the mutex is free
Acquire(o) ==
    /\ Running(o) /\ Instr(o).op = "lock"
    /\ owner[Instr(o).m] = "none"
    /\ owner' = [owner EXCEPT ![Instr(o).m] = o]
    /\ lockpc' = [lockpc EXCEPT ![o] = @ + 1]

Release(o) ==
    /\ Running(o) /\ Instr(o).op = "unlock"
    /\ owner' = [owner EXCEPT ![Instr(o).m] = "none"]
    /\ lockpc' = [lockpc EXCEPT ![o] = @ + 1]

\* the future is suspended and resumed
Suspend(o) ==
    /\ Running(o) /\ Instr(o).op = "await"
    /\ lockpc' = [lockpc EXCEPT ![o] = @ + 1]
    /\ UNCHANGED owner

Jump(o, k) ==
    /\ Running(o) /\ Instr(o).op = "branch" /\ k \in Instr(o).to
    /\ lockpc' = [lockpc EXCEPT ![o] = k]
    /\ UNCHANGED owner

\* the operation goes on, or returns and its guards are dropped
Return(o, taken) ==
    /\ Running(o) /\ Instr(o).op = "return"
    /\ IF taken
       THEN /\ lockpc' = [lockpc EXCEPT ![o] = Len(LockProgram(o)) + 1]
            /\ owner' = [m \in Mutexes |->
                            IF owner[m] = o THEN "none" ELSE owner[m]]
       ELSE /\ lockpc' = [lockpc EXCEPT ![o] = @ + 1]
            /\ UNCHANGED owner

\* every operation is about to be called, every mutex is free
InitLocks ==
    /\ owner = [m \in Mutexes |-> "none"]
    /\ lockpc = [o \in Operations |-> 1]

\* the mutexes left aside
NoLocks ==
    /\ owner = [m \in Mutexes |-> "none"]
    /\ lockpc = [o \in Operations |-> 0]

----------------------------------------------------------------------------
(* The server lifecycle: the startup task and concurrent switch_model calls *)

\* models_dir as the lifecycle runs: X and Y downloaded, W not, no flat model
SwitchDisk ==
    [d \in {"", "X", "Y", "W", "Z"} |->
        CASE d = ""  -> Some({})
          [] d = "X" -> Some({"model.gguf"})
          [] d = "Y" -> Some({"model.gguf", "mmproj.gguf"})
          [] OTHER   -> None]

\* no switch_model call has been made
InitSwitchers ==
    /\ sw = [p \in SwProcs |-> IdleFrame]
    /\ lastDone = NoCall
    /\ swCalls = 0

\* lib.rs lines 1517-1518: both maps start empty
InitDownloads ==
    /\ active_downloads = [id \in ModelIds |-> None]
    /\ downloading_progress = [id \in ModelIds |-> None]
    /\ cancelled = {}
    /\ dl = [p \in DlProcs |-> DlIdleFrame]
    /\ dlCalls = 0

\* lib.rs lines 1488-1519: the managed state and the startup task
InitManager(d) ==
    LET found == FoundModel(d)
    IN  /\ disk = d
        /\ process = None
        /\ is_ready = FALSE
        /\ model_path = IF found = None THEN EmptyPath ELSE found[1][1]
        /\ mmproj_path = IF found = None THEN None ELSE found[1][2]
        /\ current_model_id = IF found = None THEN None ELSE Some(found[1][3])
        /\ st = [pc |-> IF found = None THEN "none" ELSE "spawn",
                 mp |-> IF found = None THEN EmptyPath ELSE found[1][1],
                 mm |-> IF found = None THEN None ELSE found[1][2],
                 child |-> None, elapsed |-> 0]
        /\ spawned = {}
        /\ killSent = {}

InitSwitch ==
    /\ InitManager(SwitchDisk)
    /\ InitSwitchers
    /\ InitDownloads
    /\ InitAcc
    /\ InitChats
    /\ InitDeletes
    /\ NoWait
    /\ NoTurn
    /\ cancel_requested = {}
    /\ NoLocks

\* the steps of the switch_model callers in P
SwitchCalls(P) ==
    \/ \E p \in P, id \in ModelIds : SwStart(p, id)
    \/ \E p \in P, ok \in BOOLEAN : SwKill(p, ok)
    \/ \E p \in P : SwUnready(p)
    \/ \E p \in P : SwSetModelPath(p)
    \/ \E p \in P : SwSetMmprojPath(p)
    \/ \E p \in P : SwSetCurrent(p)
    \/ \E p \in P, o \in {"sidecar_err", "spawn_err", "ok"} : SwSpawn(p, o)
    \/ \E p \in P : SwStore(p)
    \/ \E p \in P : SwProbeTimeout(p)
    \/ \E p \in P : SwProbeOk(p)
    \/ \E p \in P, dt \in {1, 2} : SwProbeRetry(p, dt)
    \/ \E p \in P : SwReady(p)

\* the steps of the startup task
StartupStep ==
    \/ \E o \in {"sidecar_err", "spawn_err", "ok"} : StSpawn(o)
    \/ StStore
    \/ StProbeTimeout
    \/ StProbeOk
    \/ \E dt \in {1, 2} : StProbeRetry(dt)
    \/ StReady

SwitchStep == SwitchCalls(SwProcs) \/ StartupStep

NextSwitch ==
    SwitchStep /\ UNCHANGED <<dlVars, accVars, chVars, delVars, wait, turnVars, imgVars, cancel_requested, lockVars>>

SpecSwitch == InitSwitch /\ [][NextSwitch]_vars

----------------------------------------------------------------------------
(* Properties of the server lifecycle, checked under SpecSwitch *)

\* the step in which the switch_model call of p returns
Returns(p) == sw'[p].pc = "done" /\ (sw[p].pc # "done" \/ sw'[p].n # sw[p].n)

LookupErrors == {"not_in_catalog", "not_downloaded", "legacy_missing"}
LaunchErrors == {"sidecar", "spawn", "timeout"}

\* C1: in every reachable state, also between the steps of one switch_model
\* call and under concurrent calls, is_ready implies that the process slot
\* holds a child and that this child was spawned with the stored model_path.
C1_ReadyImpliesChildOfModelPath ==
    is_ready => (process # None /\ process[1].mp = model_path)

\* C8: a switch_model call for Y that no other call overlaps, started while
\* the server is ready on X, and whose spawn fails, returns Err with is_ready
\* false, current_model_id Y, model_path the path of Y, an empty process slot
\* and an "error" model:switching event emitted; a following call for X that
\* no other call overlaps and whose spawn and probe succeed returns Ok with
\* is_ready true, current_model_id X and a child of X's path in the slot.
C8_SpawnFailureThenRecovery ==
    [][\A p \in SwProcs :
        /\ (/\ Returns(p)
            /\ sw'[p].err = "spawn"
            /\ ~sw'[p].overlap)
           => /\ sw'[p].result = "Err"
              /\ is_ready' = FALSE
              /\ current_model_id' = Some(sw[p].id)
              /\ model_path' = sw[p].mp
              /\ mmproj_path' = sw[p].mm
              /\ process' = None
              /\ "error" \in sw'[p].events
        /\ (/\ Returns(p)
            /\ sw[p].pc = "probed_ok"
            /\ sw[p].prev.err = "spawn"
            /\ ~sw'[p].overlap)
           => /\ sw'[p].result = "Ok"
              /\ is_ready' = TRUE
              /\ current_model_id' = Some(sw[p].id)
              /\ model_path' = sw[p].mp
              /\ process' # None /\ process'[1].mp = sw[p].mp]_vars

\* the scenario of C8 has run to its end: ready on X, the switch to Y failed
\* in spawn, the following switch to X succeeded
C8_Witness ==
    \E p \in SwProcs :
        /\ sw[p].pc = "done" /\ sw[p].result = "Ok" /\ sw[p].id = "X"
        /\ ~sw[p].overlap
        /\ sw[p].prev = [id |-> "Y", err |-> "spawn"]
        /\ is_ready /\ current_model_id = Some("X")
        /\ \E q \in SwProcs :
              /\ sw[q].pc = "done" /\ sw[q].err = "spawn" /\ sw[q].id = "Y"
              /\ sw[q].from = Some("X") /\ ~sw[q].overlap
              /\ "error" \in sw[q].events

----------------------------------------------------------------------------
(* The download manager: concurrent download_model and cancel_download calls *)

\* models_dir of a fresh installation: no model directory yet
EmptyDisk ==
    [d \in {"", "X", "Y", "W", "Z"} |-> IF d = "" THEN Some({}) ELSE None]

\* ids the download callers pass
DownloadIds == {"X", "Y", "Z"}

InitDownload ==
    /\ InitManager(EmptyDisk)
    /\ InitSwitchers
    /\ InitDownloads
    /\ InitAcc
    /\ InitChats
    /\ InitDeletes
    /\ NoWait
    /\ NoTurn
    /\ cancel_requested = {}
    /\ NoLocks

\* the steps of the callers in P when the HTTP layer delivers chunks of the
\* lengths in L
DownloadStep(P, L) ==
    \/ \E p \in P, id \in DownloadIds : DlStart(p, id)
    \/ \E p \in P : DlRegister(p)
    \/ \E p \in P : DlTrack(p)
    \/ \E p \in P, ok \in BOOLEAN : DlMkdir(p, ok)
    \/ \E p \in P : DlFileCheck(p)
    \/ \E p \in P : DlCleanupDownloads(p)
    \/ \E p \in P : DlCleanupProgress(p)
    \/ \E p \in P, o \in {"transport_err", "http_status", "ok"} : DlSend(p, o)
    \/ \E p \in P, ok \in BOOLEAN : DlCreate(p, ok)
    \/ \E p \in P, k \in {"end", "chunk_err", "data"}, len \in L,
          ok \in BOOLEAN : DlChunk(p, k, len, ok)
    \/ \E p \in P : DlProgress(p)
    \/ \E p \in P, ok \in BOOLEAN : DlFlush(p, ok)
    \/ \E p \in P : DlFinishDownloads(p)
    \/ \E p \in P : DlFinishProgress(p)
    \/ \E p \in P : DlComplete(p)
    \/ \E id \in DownloadIds : cancel_download(id)
    \/ \E id \in DownloadIds : cancel_download_absent(id)

\* concurrent callers, every chunk of one length
NextDownload ==
    DownloadStep(DlProcs, {ProgressStep}) /\ UNCHANGED <<mgrVars, swVars, accVars, chVars, delVars, wait, turnVars, imgVars, cancel_requested, lockVars>>

SpecDownload == InitDownload /\ [][NextDownload]_vars

\* one caller, chunks of every length in ChunkLens
NextDownloadOne ==
    DownloadStep({1}, ChunkLens) /\ UNCHANGED <<mgrVars, swVars, accVars, chVars, delVars, wait, turnVars, imgVars, cancel_requested, lockVars>>

SpecDownloadOne == InitDownload /\ [][NextDownloadOne]_vars

----------------------------------------------------------------------------
(* Properties of the download manager *)

\* the call of p has passed the already-downloading check and not returned
PassedCheck(f) == f.pc \notin {"idle", "done"}

\* C2: for any interleaving of download_model calls, two calls for the same
\* model id never both pass the already-downloading check.
C2_OneCallPerIdPassesTheCheck ==
    \A p, q \in DlProcs :
        (p # q /\ PassedCheck(dl[p]) /\ PassedCheck(dl[q]))
            => dl[p].id # dl[q].id

\* C3: when a download_model call that registered itself has returned, with
\* Ok or with any error, neither active_downloads nor downloading_progress
\* contains its model id.
C3_ReturnClearsTracking ==
    \A p \in DlProcs :
        (dl[p].pc = "done" /\ dl[p].registered)
            => /\ active_downloads[dl[p].id] = None
               /\ downloading_progress[dl[p].id] = None

\* C4: whenever download_model has returned an error of any kind, the model
\* directory it created no longer exists.
C4_ErrorRemovesDirectory ==
    \A p \in DlProcs :
        (dl[p].pc = "done" /\ dl[p].result = "Err" /\ dl[p].made)
            => disk[get_model_dir(dl[p].id)] = None

----------------------------------------------------------------------------
(* The accumulation of tool-call deltas on its own: one stream of deltas *)

InitAccumulate ==
    /\ InitManager(EmptyDisk)
    /\ InitSwitchers
    /\ InitDownloads
    /\ InitAcc
    /\ InitChats
    /\ InitDeletes
    /\ NoWait
    /\ NoTurn
    /\ cancel_requested = {}
    /\ NoLocks

NextAccumulate ==
    /\ \E d \in ToolCallDeltas : AccDelta(d)
    /\ UNCHANGED <<mgrVars, disk, swVars, dlVars, chVars, delVars, wait, turnVars, imgVars, cancel_requested, lockVars>>

SpecAccumulate == InitAccumulate /\ [][NextAccumulate]_vars

\* the positions of ds whose delta has index i and satisfies Carries
Positions(ds, i, Carries(_)) ==
    {k \in 1 .. Len(ds) : ds[k].index = i /\ Carries(ds[k])}

Largest(S) == CHOOSE k \in S : \A j \in S : j <= k

CarriesId(d) == d.id # None
CarriesName(d) == d.function # None /\ d.function[1].name # None
CarriesArguments(d) == d.function # None /\ d.function[1].arguments # None

\* the last id delivered for index i, empty if none
LastId(ds, i) ==
    LET K == Positions(ds, i, CarriesId)
    IN  IF K = {} THEN "" ELSE ds[Largest(K)].id[1]

\* the last name delivered for index i, empty if none
LastName(ds, i) ==
    LET K == Positions(ds, i, CarriesName)
    IN  IF K = {} THEN "" ELSE ds[Largest(K)].function[1].name[1]

\* the argument fragments delivered for index i, concatenated in arrival order
RECURSIVE AllArguments(_, _)
AllArguments(ds, i) ==
    IF ds = <<>> THEN <<>>
    ELSE (IF Head(ds).index = i /\ CarriesArguments(Head(ds))
          THEN Head(ds).function[1].arguments[1] ELSE <<>>)
         \o AllArguments(Tail(ds), i)

\* highest index seen + 1
SlotsSeen(ds) ==
    IF ds = <<>> THEN 0 ELSE Largest({ds[k].index : k \in 1 .. Len(ds)}) + 1

\* ds with the deltas at positions k and k + 1 exchanged
SwapAdjacent(ds, k) ==
    [j \in 1 .. Len(ds) |->
        IF j = k THEN ds[k + 1] ELSE IF j = k + 1 THEN ds[k] ELSE ds[j]]

\* C7: the accumulated list has length highest index + 1; entry i has the
\* last id and the last name delivered for index i (empty if none) and the
\* concatenation in arrival order of the argument fragments delivered for
\* index i; the list equals the sequential fold over the deltas in arrival
\* order and is unchanged when two adjacent deltas with different indices are
\* swapped.
C7_AccumulationByIndex ==
    /\ Len(tool_calls) = SlotsSeen(tc_deltas)
    /\ \A i \in 1 .. Len(tool_calls) :
        /\ tool_calls[i].id = LastId(tc_deltas, i - 1)
        /\ tool_calls[i].name = LastName(tc_deltas, i - 1)
        /\ tool_calls[i].arguments = AllArguments(tc_deltas, i - 1)
    /\ tool_calls = MergeDeltas(<<>>, tc_deltas)
    /\ \A k \in 1 .. Len(tc_deltas) - 1 :
        tc_deltas[k].index # tc_deltas[k + 1].index
            => MergeDeltas(<<>>, SwapAdjacent(tc_deltas, k)) = tool_calls

\* three deltas were merged: index 1 received two different argument
\* fragments and two different ids, index 0 never received a delta
C7_Witness ==
    /\ Len(tc_deltas) = 3
    /\ Len(tool_calls) = 3
    /\ tool_calls[1] = DefaultToolCall
    /\ tool_calls[2].arguments = <<"x", "y">>
    /\ tool_calls[2].id = "b"
    /\ tc_deltas[1].id = Some("a")
    /\ tc_deltas[1].index = 1
    /\ tc_deltas[2].index = 2

----------------------------------------------------------------------------
(* The chat streaming loop: chat_stream calls and cancel_generation *)

InitChat ==
    /\ InitManager(EmptyDisk)
    /\ InitSwitchers
    /\ InitDownloads
    /\ InitAcc
    /\ InitChats
    /\ InitDeletes
    /\ NoWait
    /\ NoTurn
    /\ cancel_requested = {}
    /\ NoLocks

ChatStep ==
    \/ \E p \in ChProcs, id \in ChatIds : ChStart(p, id)
    \/ \E p \in ChProcs, o \in InsertOutcomes : ChSaveUser(p, o)
    \/ \E p \in ChProcs, ok \in BOOLEAN : ChHistory(p, ok)
    \/ \E p \in ChProcs, ok \in BOOLEAN : ChBegin(p, ok)
    \/ \E p \in ChProcs : ChLoop(p)
    \/ \E p \in ChProcs, ok \in BOOLEAN : ChRequest(p, ok)
    \/ \E p \in ChProcs, e \in StreamEvents, emitOk \in BOOLEAN :
          ChEvent(p, e, emitOk)
    \/ \E p \in ChProcs, emitOk \in BOOLEAN : ChToolCall(p, emitOk)
    \/ \E p \in ChProcs, emitOk \in BOOLEAN : ChToolResult(p, emitOk)
    \/ \E p \in ChProcs, o \in InsertOutcomes : ChPersist(p, o)
    \/ \E p \in ChProcs, ok \in BOOLEAN, emitOk \in BOOLEAN :
          ChEnd(p, ok, emitOk)
    \/ cancel_generation

NextChat ==
    /\ ChatStep
    /\ UNCHANGED <<mgrVars, disk, swVars, dlVars, accVars, delVars, wait, turnVars, imgVars, cancel_requested, lockVars>>

SpecChat == InitChat /\ [][NextChat]_vars

----------------------------------------------------------------------------
(* Properties of the chat streaming loop, checked under SpecChat *)

\* the chat_stream call of p returns in this step
ChReturns(p) == ch[p].pc # "done" /\ ch'[p].pc = "done"

\* the response stream of p ends in this step with no accumulated tool call
StreamEndsEmpty(p) ==
    ch[p].pc = "stream" /\ ch'[p].pc # "stream" /\ ch[p].tool_calls = <<>>

\* what every turn does, whatever its outcome: at most 10 requests, one per
\* iteration; 10 completed rounds mean 10 requests; a stream that ends with
\* no tool call leads to the persistence step, after which no request is sent
LoopIsBounded(p) ==
    /\ ch'[p].requests <= MAX_TOOL_ITERATIONS
    /\ ch'[p].iteration <= MAX_TOOL_ITERATIONS
    /\ ch'[p].iteration = MAX_TOOL_ITERATIONS
          => ch'[p].requests = MAX_TOOL_ITERATIONS
    /\ (ch[p].pc = "loop" /\ ch[p].iteration = MAX_TOOL_ITERATIONS
            /\ ch'[p] # ch[p])
          => ch'[p].pc = "persist"
    /\ StreamEndsEmpty(p) => ch'[p].pc = "persist"
    /\ ch[p].pc \in {"persist", "end"} => ch'[p].requests = ch[p].requests

C6_CancelStopsToolsAndRequests ==
    [][\A p \in ChProcs :
        (is_cancelled /\ ch[p].pc \notin {"idle", "done"})
            => /\ ch'[p].requests = ch[p].requests
               /\ ~(ch[p].pc = "tool" /\ ch'[p].pc = "tool_running")]_vars

\* C10: when the completion request cannot be constructed or the connection
\* to the inference server cannot be opened, chat_stream returns an error,
\* not Ok.
C10_OpenFailureReturnsErr ==
    \A p \in ChProcs :
        (ch[p].pc = "done" /\ (ch[p].err = "request" \/ ch[p].refused))
            => ch[p].result = "Err"

\* C11: a failure to deliver a UI event never changes the result a command
\* returns and never prevents its later steps: no chat_stream call returns
\* the failure of an emit as its error.
C11_EmitFailureNeverFailsTheTurn ==
    \A p \in ChProcs :
        ch[p].pc = "done" => ch[p].err \notin {"emit_begin", "emit_end"}

\* the download of p has received some but not all of its bytes
PartlyReceived(f) ==
    0 < f.total_downloaded /\ f.total_downloaded < total_bytes(f.id)

C13_CancelBeforeFirstByteCleansUp ==
    [][\A p \in DlProcs :
        LET f == dl[p]
        IN  (/\ f.pc \notin {"idle", "done"}
             /\ f.registered
             /\ f.n \in cancelled
             /\ f.total_downloaded = 0
             /\ dl'[p].pc = "done")
                => /\ disk'[get_model_dir(f.id)] = None
                   /\ active_downloads'[f.id] = None]_vars

\* the turn of p is past the save of its user message, or has ended after it
PastUserSave(f) ==
    \/ f.pc \in {"history", "begin", "loop", "request", "stream", "tool",
                 "tool_running", "persist", "end"}
    \/ /\ f.pc = "done"
       /\ \/ f.result = "Ok"
          \/ f.err \in {"history", "emit_begin", "request", "persist",
                        "emit_end"}
          \/ f.requests > 0
          \/ "chat:begin" \in f.events

\* C14: in every chat turn the user's message is in the messages table before
\* chat:begin is emitted and before the first completion request is sent, and
\* it is still there whatever later step of the turn fails.
C14_UserMessagePersistedFirst ==
    \A p \in ChProcs :
        PastUserSave(ch[p])
            => /\ ch[p].user_row \in 1 .. Len(messages)
               /\ messages[ch[p].user_row] =
                     Message(ch[p].chat_id, "user", Prompt, <<>>)

\* a second turn failed at its assistant insert after sending a request; its
\* own user message is the third row of the table
C14_Witness ==
    \E p \in ChProcs :
        /\ ch[p].pc = "done"
        /\ ch[p].err = "persist"
        /\ ch[p].requests > 0
        /\ ch[p].user_row = 3
        /\ Len(messages) = 3

\* the turn of p has observed the cancellation flag and has not returned
CancelledInFlight(f) == f.cancel_seen /\ f.pc \notin {"idle", "done"}

\* the assistant message made of the text the turn has accumulated
AssistantMessage(f) ==
    Message(f.chat_id, "assistant", f.full_response_content,
            f.full_response_thinking)

\* after the cancellation was observed no delta is processed and the turn
\* writes nothing to the table outside the persistence step
CancelFreezesText(f, g) ==
    /\ g.pc # "done"
          => /\ g.full_response_content = f.full_response_content
             /\ g.full_response_thinking = f.full_response_thinking
    /\ (f.pc # "persist" /\ g # f) => messages' = messages
    /\ g.pc = "done" => f.pc \in {"persist", "end"}

\* C15 as stated: a cancelled chat turn still persists exactly one assistant
\* message, made of the content and reasoning deltas processed before the
\* cancellation was observed, then emits chat:end and returns Ok.
C15_CancelledTurnPersistsThenOk ==
    [][\A p \in ChProcs :
        LET f == ch[p]
            g == ch'[p]
        IN  CancelledInFlight(f)
              => /\ CancelFreezesText(f, g)
                 /\ (f.pc = "persist" /\ g # f)
                       => /\ messages' = Append(messages, AssistantMessage(f))
                          /\ g.pc = "end"
                 /\ (f.pc = "end" /\ g # f)
                       => /\ g.result = "Ok"
                          /\ "chat:end" \in g.events]_vars


----------------------------------------------------------------------------
(* delete_model next to the startup task and one switch_model caller *)

InitDelete ==
    /\ InitManager(SwitchDisk)
    /\ InitSwitchers
    /\ InitDownloads
    /\ InitAcc
    /\ InitChats
    /\ InitDeletes
    /\ NoWait
    /\ NoTurn
    /\ cancel_requested = {}
    /\ NoLocks

DeleteStep ==
    \/ \E id \in DeleteIds : DelCheck(id)
    \/ \E ok \in BOOLEAN : DelRemove(ok)

NextDelete ==
    /\ \/ (SwitchCalls({1}) \/ StartupStep) /\ UNCHANGED delVars
       \/ DeleteStep /\ UNCHANGED <<lastDone>>
    /\ UNCHANGED <<dlVars, accVars, chVars, wait, turnVars, imgVars, cancel_requested, lockVars>>

SpecDelete == InitDelete /\ [][NextDelete]_vars

\* C16: delete_model never removes the directory of the model whose id
\* equals current_model_id, also when a switch_model to that model runs
\* concurrently: no step removes the directory of the current model.
C16_ActiveModelNeverDeleted ==
    [][\A id \in ModelIds :
        (disk[get_model_dir(id)] # None /\ disk'[get_model_dir(id)] = None)
            => current_model_id # Some(id)]_vars

----------------------------------------------------------------------------
(* Further properties of the server lifecycle, checked under SpecSwitch *)

\* the switch_model call of p performs its stop step
Stops(p) == sw[p].pc = "kill" /\ sw'[p].pc # "kill"

\* C17: the stop step leaves the process slot empty; applied to an empty slot
\* it changes no state, so a second stop in a row is a no-op; it raises no
\* error, whether or not the kill succeeds: the call goes on.
C17_StopIsIdempotent ==
    [][\A p \in SwProcs :
        Stops(p)
            => /\ process' = None
               /\ sw'[p].pc = "unready"
               /\ sw'[p].err = "none"
               /\ UNCHANGED <<is_ready, model_path, mmproj_path,
                              current_model_id, spawned, disk>>
               /\ process = None => killSent' = killSent
               /\ process # None => killSent' = killSent \cup {process[1]}]_vars

\* two calls have stopped the server one after the other: the first killed a
\* child, the second found the slot empty
C17_Witness ==
    /\ \A p \in SwProcs : sw[p].pc = "unready"
    /\ process = None
    /\ Cardinality(killSent) = 1

----------------------------------------------------------------------------
(* wait_for_server_ready on its own: every probe returns *)

InitProbing ==
    /\ InitManager(EmptyDisk)
    /\ InitSwitchers
    /\ InitDownloads
    /\ InitAcc
    /\ InitChats
    /\ InitDeletes
    /\ InitWait
    /\ NoTurn
    /\ cancel_requested = {}
    /\ NoLocks

NextProbing ==
    /\ \/ WaitCheck
       \/ \E o \in ProbeOutcomes, dt \in {0, 1} : WaitProbe(o, dt)
       \/ \E dt \in {1, 2} : WaitSleep(dt)
    /\ UNCHANGED <<mgrVars, disk, swVars, dlVars, accVars, chVars, delVars, turnVars, imgVars, cancel_requested, lockVars>>

\* the loop has no step that waits for another task: a step that can be
\* taken is taken
SpecProbing == InitProbing /\ [][NextProbing]_vars /\ WF_vars(NextProbing)

\* in half seconds, more than timeout_secs seconds have elapsed
MoreThanTimeout(w) == w.elapsed > 2 * w.timeout_secs

\* C18: wait_for_server_ready returns Ok only after a probe was answered with
\* a 2xx status; after a connection error and after a non-2xx answer alike it
\* sleeps and probes again; it returns 'Server startup timeout' only once more
\* than timeout_secs seconds have elapsed; and when every probe returns it
\* terminates with one of these two outcomes.
C18_ProbeUntilReadyOrTimeout ==
    /\ [](wait.pc = "done"
            => \/ wait.result = "Ok" /\ wait.last = "success"
               \/ /\ wait.result = "Err"
                  /\ wait.err = "Server startup timeout"
                  /\ MoreThanTimeout(wait))
    /\ [][/\ (wait.pc = "get" /\ wait'.last # "success")
                => wait'.pc = "sleep"
          /\ wait.pc = "sleep"
                => (wait'.pc = "check" /\ wait'.elapsed > wait.elapsed)
          /\ (wait.pc = "check" /\ ~MoreThanTimeout(wait))
                => wait'.pc = "get"]_vars
    /\ <>(wait.pc = "done")

\* a call with timeout_secs = 1 met a connection error or a non-2xx answer
\* and has returned the timeout
C18_Witness ==
    /\ wait.pc = "done"
    /\ wait.result = "Err"
    /\ wait.timeout_secs = 1
    /\ wait.last = "other_status"

----------------------------------------------------------------------------
(* One chat turn with the calculator enabled, followed from the tool loop on *)

\* the prompt is saved (lines 76-80), the flag reset (line 74), chat:begin
\* emitted
InitToolTurn ==
    /\ InitManager(EmptyDisk)
    /\ InitSwitchers
    /\ InitDownloads
    /\ InitAcc
    /\ InitDeletes
    /\ NoWait
    /\ is_cancelled = FALSE
    /\ messages = <<Message("c1", "user", Prompt, <<>>)>>
    /\ ch = [p \in ChProcs |-> ChIdleFrame]
    /\ chCalls = 0
    /\ turn = TurnFrame
    /\ enabled_tools = <<"calculator">>
    /\ NoImages
    /\ cancel_requested = {}
    /\ NoLocks

ToolTurnStep ==
    \/ TurnLoop
    \/ \E ok \in BOOLEAN : TurnRequest(ok)
    \/ \E e \in TurnStreamEvents, emitOk \in BOOLEAN : TurnEvent(e, emitOk)
    \/ \E emitOk \in BOOLEAN : TurnToolCall(emitOk)
    \/ \E emitOk \in BOOLEAN : TurnToolResult(emitOk)
    \/ \E o \in InsertOutcomes : TurnPersist(o, 1)
    \/ \E ok \in BOOLEAN, emitOk \in BOOLEAN : TurnEnd(ok, emitOk)
    \/ cancel_generation /\ UNCHANGED turnVars

NextToolTurn ==
    /\ ToolTurnStep
    /\ UNCHANGED <<mgrVars, disk, swVars, dlVars, accVars, ch, chCalls,
                   delVars, wait, imgVars, cancel_requested, lockVars>>

SpecToolTurn == InitToolTurn /\ [][NextToolTurn]_vars

\* the tool-call deltas of a stream, in the order sent
RECURSIVE ToolDeltasSent(_)
ToolDeltasSent(stream) ==
    IF stream = <<>> THEN <<>>
    ELSE (IF Head(stream) \in SkippedMessages THEN <<>>
          ELSE IF Head(stream).tool_calls = None THEN <<>>
          ELSE Head(stream).tool_calls[1]) \o ToolDeltasSent(Tail(stream))

\* the turn has returned; its first stream delivered one tool call named
\* calculator with the arguments {"expression":"2+2"}, its second only text
CalculatorScenario ==
    /\ turn.pc = "done"
    /\ Len(turn.streams) = 2
    /\ MergeDeltas(<<>>, ToolDeltasSent(turn.streams[1]))
          = <<AccumulatedToolCall("call_1", "calculator",
                                  ObjectText("expression", TwoPlusTwo))>>
    /\ \A i \in DOMAIN turn.streams[2] : turn.streams[2][i] = AnswerText

\* the emits of an event made, and those that delivered it
Attempted(name) ==
    {i \in DOMAIN turn.emitted : turn.emitted[i].name = name}
Delivered(name) == {i \in Attempted(name) : turn.emitted[i].ok}

Contains(text, c) == \E i \in DOMAIN text : text[i] = c

\* every tool:result emit reports success with an output containing "4"
ResultIsFour ==
    \A i \in Attempted("tool:result") :
        /\ turn.emitted[i].payload.success
        /\ Contains(turn.emitted[i].payload.output, "4")

\* two requests were sent and the second carries the tool result
SecondRequestCarriesResult ==
    /\ Len(turn.requests) = 2
    /\ \E i \in DOMAIN turn.requests[2] :
          /\ turn.requests[2][i].kind = "ToolResult"
          /\ turn.requests[2][i].tool_call_id = "call_1"
          /\ Contains(turn.requests[2][i].content, "4")

\* every tool call of the conversation is followed by its result
NoCallUnanswered ==
    \A i \in DOMAIN turn.conversation_messages :
        LET m == turn.conversation_messages[i]
        IN  m.kind = "AssistantWithTools" =>
              \A k \in DOMAIN m.tool_calls :
                 \E j \in DOMAIN turn.conversation_messages :
                    /\ j > i
                    /\ turn.conversation_messages[j].kind = "ToolResult"
                    /\ turn.conversation_messages[j].tool_call_id
                          = m.tool_calls[k].id

AssistantRowSaved ==
    \E i \in DOMAIN messages : messages[i].role = "assistant"

----------------------------------------------------------------------------
(* switch_model: model_path and mmproj_path as a pair *)

\* the pair get_model_paths or scan_models_dir yields for one model, or the
\* pair of a manager that found no model
PairOfOneModel(mp, mm) ==
    \/ mp = EmptyPath /\ mm = None
    \/ \E id \in CatalogIds \cup {"legacy"} :
          SwitchLookup(disk, id) = <<"ok", <<mp, mm>>>>

\* no switch_model call is running
NoSwitchRunning == \A p \in SwProcs : sw[p].pc \in {"idle", "done"}

\* C20: switch_model updates model_path and mmproj_path as one atomic pair:
\* whoever reads the two sees the pair of a single model, and once the
\* switch_model calls have returned the pair is that of current_model_id.
C20_PathsUpdatedAsOnePair ==
    /\ PairOfOneModel(model_path, mmproj_path)
    /\ (NoSwitchRunning /\ current_model_id # None) =>
          SwitchLookup(disk, current_model_id[1])
              = <<"ok", <<model_path, mmproj_path>>>>

----------------------------------------------------------------------------
(* Two concurrent callers of chat_stream and cancel_generation; the database *)
(* and the emits do not fail, the server sends text and, in the first         *)
(* MaxToolRounds rounds of a turn, one tool call                             *)

PairProcs == {1, 2}
PairEvents ==
    {[kind |-> k] : k \in {"open", "done"}} \cup
    {[kind |-> "delta", delta |-> d] :
        d \in {OpenAIDelta(Some(<<"h">>), None, None),
               OpenAIDelta(Some(<<>>), None,
                  Some(<<ToolCallDelta(0, Some("a"),
                     Some(FunctionCallDelta(Some("calculator"),
                                            Some(<<"x">>))))>>))}}

InitChatPair ==
    /\ InitManager(EmptyDisk)
    /\ InitSwitchers
    /\ InitDownloads
    /\ InitAcc
    /\ InitDeletes
    /\ NoWait
    /\ NoTurn
    /\ cancel_requested = {}
    /\ NoLocks
    /\ is_cancelled = FALSE
    /\ messages = <<>>
    /\ ch = [p \in PairProcs |-> ChIdleFrame]
    /\ chCalls = 0

ChatPairCalls ==
    \/ \E p \in PairProcs : ChSaveUser(p, "ok")
    \/ \E p \in PairProcs : ChHistory(p, TRUE)
    \/ \E p \in PairProcs : ChBegin(p, TRUE)
    \/ \E p \in PairProcs : ChLoop(p)
    \/ \E p \in PairProcs : ChRequest(p, TRUE)
    \/ \E p \in PairProcs, e \in PairEvents :
          /\ (e.kind = "delta" /\ e.delta.tool_calls # None)
                => ch[p].iteration < MaxToolRounds
          /\ ChEvent(p, e, TRUE)
    \/ \E p \in PairProcs : ChToolCall(p, TRUE)
    \/ \E p \in PairProcs : ChToolResult(p, TRUE)
    \/ \E p \in PairProcs : ChPersist(p, "ok")
    \/ \E p \in PairProcs : ChEnd(p, TRUE, TRUE)

\* cancel_requested follows the calls: a starting turn resets the flag, a
\* cancel_generation called while both turns are in flight reaches both
ChatPairStep ==
    \/ \E p \in PairProcs, id \in ChatIds :
          /\ ChStartWithin(p, id, MaxPairCalls)
          /\ cancel_requested' = cancel_requested \ {p}
    \/ cancel_generation
          /\ cancel_requested' =
                IF \A p \in PairProcs : ch[p].pc \notin {"idle", "done"}
                THEN PairProcs ELSE cancel_requested
    \/ ChatPairCalls /\ UNCHANGED cancel_requested

NextChatPair ==
    /\ ChatPairStep
    /\ UNCHANGED <<mgrVars, disk, swVars, dlVars, accVars, delVars, wait, turnVars, imgVars,
                   lockVars>>

SpecChatPair == InitChatPair /\ [][NextChatPair]_vars

\* caller p takes a step at one of the two places where its turn loads the
\* flag: the head of the tool loop and the arrival of a stream event
ChecksFlag(p) ==
    /\ ch'[p] # ch[p]
    /\ \/ ch[p].pc = "loop" /\ ch[p].iteration < MAX_TOOL_ITERATIONS
       \/ ch[p].pc = "stream" /\ ch'[p].opened = ch[p].opened
                              /\ ch'[p].seen = ch[p].seen

\* C21: the cancellation flag is shared by all chat turns: after one call of
\* cancel_generation every turn in flight observes the flag at its next check
\* and stops generating: it processes no further delta and sends no further
\* request.
C21_OneCancelStopsEveryTurn ==
    [][\A p \in PairProcs :
        (p \in cancel_requested /\ ChecksFlag(p))
            => /\ ch'[p].cancel_seen
               /\ ch'[p].pc \in {"persist", "tool"}
               /\ ch'[p].requests = ch[p].requests
               /\ ch'[p].full_response_content = ch[p].full_response_content]_vars

----------------------------------------------------------------------------
(* The operations on the mutexes, one call of each, in any interleaving *)

InitLocking ==
    /\ InitManager(EmptyDisk)
    /\ InitSwitchers
    /\ InitDownloads
    /\ InitAcc
    /\ InitChats
    /\ InitDeletes
    /\ NoWait
    /\ NoTurn
    /\ cancel_requested = {}
    /\ InitLocks

NextLocking ==
    /\ \/ \E o \in Operations : Acquire(o)
       \/ \E o \in Operations : Release(o)
       \/ \E o \in Operations : Suspend(o)
       \/ \E o \in Operations : \E k \in 1 .. Len(LockProgram(o)) : Jump(o, k)
       \/ \E o \in Operations, taken \in BOOLEAN : Return(o, taken)
    /\ UNCHANGED <<mgrVars, disk, swVars, dlVars, accVars, chVars, delVars,
                   wait, turnVars, imgVars, cancel_requested>>

SpecLocking == InitLocking /\ [][NextLocking]_vars

\* o is at a lock of a mutex that is taken
Blocked(o) ==
    Running(o) /\ Instr(o).op = "lock" /\ owner[Instr(o).m] # "none"

\* following at most n waits from o leads to an operation that is not waiting
RECURSIVE LeadsToRunnable(_, _)
LeadsToRunnable(o, n) ==
    IF ~Blocked(o) THEN TRUE
    ELSE n > 0 /\ LeadsToRunnable(owner[Instr(o).m], n - 1)

\* C22: no operation holds a mutex across an await, none locks a mutex it
\* holds, only list_models holds two mutexes at once (current_model_id, then
\* downloading_progress); hence no interleaving of the operations deadlocks:
\* whoever waits for a mutex waits, directly or through other waiters, for an
\* operation that can take a step.
C22_LockDiscipline ==
    \A o \in Operations :
        /\ (Running(o) /\ Instr(o).op = "await") => Held(o) = {}
        /\ (Running(o) /\ Instr(o).op = "lock") => owner[Instr(o).m] # o
        /\ Cardinality(Held(o)) >= 2
              => /\ o = "list_models"
                 /\ Held(o) = {"current_model_id", "downloading_progress"}
        /\ (Running(o) /\ Instr(o).op = "lock" /\ Held(o) # {})
              => /\ Held(o) = {"current_model_id"}
                 /\ Instr(o).m = "downloading_progress"
        /\ ~Running(o) => Held(o) = {}
        /\ LeadsToRunnable(o, Cardinality(Operations))

\* list_models holds its two mutexes while download_model waits for the
\* second and switch_model for the first
C22_Witness ==
    /\ Held("list_models") = {"current_model_id", "downloading_progress"}
    /\ Blocked("download_model")
    /\ Blocked("switch_model")
    /\ Running("chat_stream") /\ Instr("chat_stream").op = "await"

\* lines 140-177: the conversation of the first request: the system message,
\* then the recent history, each row by its role and its place in the table
FirstConversation(f) ==
    <<[role |-> "system", row |-> 0]>> \o
    [i \in 1 .. Len(Recent(f.history_msgs)) |->
        [role |-> messages[Recent(f.history_msgs)[i]].role,
         row |-> Recent(f.history_msgs)[i]]]

\* C23: the first request of a turn carries one system message, first, then
\* the last min(n, 20) messages of the chat in creation order; the user
\* message persisted at the start of the turn is the last of them.
C23_PromptIsLastOfFirstRequest ==
    \A p \in PairProcs :
        (ch[p].pc \in {"begin", "loop", "request", "stream"}
            /\ ch[p].requests = 0)
          => LET c == FirstConversation(ch[p])
                 n == Len(RowsOfChat(ch[p].chat_id, Len(messages)))
             IN  /\ c[1].role = "system"
                 /\ \A i \in 2 .. Len(c) : c[i].role # "system"
                 /\ Len(c) >= 2
                 /\ c[Len(c)].row = ch[p].user_row
                 /\ \A i \in 2 .. Len(c) - 1 : c[i].row < c[i + 1].row

----------------------------------------------------------------------------
(* One chat turn from the read of the settings on, next to cmd_toggle_tool *)

\* the lists the settings file may hold: none, one tool, tools in another
\* order than the registry's with an unknown id and one id twice, and an
\* unknown id alone
EnabledInputs ==
    {<<>>, <<"calculator">>, <<"shell", "abacus", "wikipedia", "shell">>,
     <<"abacus">>}
ToggleIds == {"shell", "abacus"}

ToolsTurnEvents ==
    {[kind |-> k] : k \in {"open", "done", "error"}} \cup
    {[kind |-> "delta", delta |-> d] :
        d \in {WholeCall("calculator", TwoPlusTwo), AnswerText}}

InitTurnTools ==
    /\ InitManager(EmptyDisk)
    /\ InitSwitchers
    /\ InitDownloads
    /\ InitAcc
    /\ InitDeletes
    /\ NoWait
    /\ is_cancelled = FALSE
    /\ messages = <<Message("c1", "user", Prompt, <<>>)>>
    /\ ch = [p \in ChProcs |-> ChIdleFrame]
    /\ chCalls = 0
    /\ enabled_tools \in EnabledInputs
    /\ turn = [TurnFrame EXCEPT !.pc = "settings", !.enabled_tool_ids = <<>>,
                                !.tools_json = None]
    /\ NoImages
    /\ cancel_requested = {}
    /\ NoLocks

TurnToolsStep ==
    \/ \E ok \in BOOLEAN : TurnSettings(ok)
    \/ TurnLoop
    \/ \E ok \in BOOLEAN : TurnRequest(ok)
    \/ \E e \in ToolsTurnEvents : TurnEvent(e, TRUE)
    \/ TurnToolCall(TRUE)
    \/ TurnToolResult(TRUE)
    \/ TurnPersist("ok", 1)
    \/ TurnEnd(TRUE, TRUE)
    \/ \E id \in ToggleIds, enabled \in BOOLEAN :
          /\ turn.pc # "done"
          /\ cmd_toggle_tool(id, enabled)
          /\ UNCHANGED <<is_cancelled, messages, turn>>

NextTurnTools ==
    /\ TurnToolsStep
    /\ UNCHANGED <<mgrVars, disk, swVars, dlVars, accVars, ch, chCalls,
                   delVars, wait, imgVars, cancel_requested, lockVars>>

SpecTurnTools == InitTurnTools /\ [][NextTurnTools]_vars

\* the places of the registry whose tool id is among ids, and the number of
\* such places up to k
EnabledPlaces(ids) ==
    {k \in DOMAIN BUILT_IN_TOOLS :
        \E j \in DOMAIN ids : ids[j] = BUILT_IN_TOOLS[k].id}
PlaceRank(ids, k) == Cardinality({j \in EnabledPlaces(ids) : j <= k})

\* C24: every completion request of a turn carries a tools list if and only
\* if a registered tool id is in the enabled set read at the start of the
\* turn; the list then holds one entry per enabled registered tool, in the
\* order of the registry, of type "function", named by the tool id, with the
\* description and the parameters object of the tool definition.
C24_ToolsListOfEveryRequest ==
    \A i \in DOMAIN turn.request_tools :
        LET tools == turn.request_tools[i]
            ids == turn.enabled_tool_ids
        IN  /\ tools # None <=> EnabledPlaces(ids) # {}
            /\ tools # None =>
                  /\ Len(tools[1]) = Cardinality(EnabledPlaces(ids))
                  /\ \A k \in EnabledPlaces(ids) :
                        LET entry == tools[1][PlaceRank(ids, k)]
                            def == BUILT_IN_TOOLS[k]
                        IN  /\ entry.type = "function"
                            /\ entry.function.name = def.id
                            /\ entry.function.description = def.description
                            /\ entry.function.parameters = def.parameters

\* two requests of a turn that read a list with a repeated id, an unknown id
\* and an order other than the registry's, the list toggled since: both
\* carry wikipedia, then shell
C24_Witness ==
    /\ Len(turn.request_tools) = 2
    /\ turn.enabled_tool_ids = <<"shell", "abacus", "wikipedia", "shell">>
    /\ enabled_tools # turn.enabled_tool_ids
    /\ turn.request_tools[2] # None
    /\ Len(turn.request_tools[2][1]) = 2
    /\ turn.request_tools[2][1][2].function.name = "shell"

----------------------------------------------------------------------------
(* db.rs insert_message and the two loaders of the images column *)

\* rows the table may come to hold
MaxImageRows == 2

\* the image lists a message is saved with
ImageLists == {<<>>, <<<<"i">>>>, <<<<"i">>, <<"j">>>>}

\* images texts no insert_message wrote: an empty text, a string, an object,
\* null, an array cut short, an array with a trailing comma, and an array
\* as insert_message writes it
StoredTexts ==
    {<<>>, <<Str(<<"x">>)>>, <<Punct("{"), Punct("}")>>, <<Punct("null")>>,
     <<Punct("["), Str(<<"i">>)>>,
     <<Punct("["), Str(<<"i">>), Punct(","), Punct("]")>>,
     <<Punct("["), Str(<<"i">>), Punct("]")>>}

\* serde_json::to_string(&[String]) writing null for the empty list
to_string_NullWhenEmpty(images) ==
    IF images = <<>> THEN <<Punct("null")>>
    ELSE <<Punct("[")>> \o
         [i \in 1 .. 2 * Len(images) - 1 |->
             IF i % 2 = 1 THEN Str(images[(i + 1) \div 2]) ELSE Punct(",")]
         \o <<Punct("]")>>

\* serde_json::to_string(&[String]): the strings between brackets, commas
\* between them
to_string(images) ==
    <<Punct("[")>> \o
    [i \in 1 .. 2 * Len(images) - 1 |->
        IF i % 2 = 1 THEN Str(images[(i + 1) \div 2]) ELSE Punct(",")]
    \o <<Punct("]")>>

\* serde_json::from_str::<Vec<String>>: Some list, or None for a text that
\* is not an array of strings
from_str_vec(text) ==
    IF Len(text) < 2 \/ text[1] # Punct("[") \/ text[Len(text)] # Punct("]")
    THEN None
    ELSE LET body == SubSeq(text, 2, Len(text) - 1)
         IN  IF body = <<>> THEN Some(<<>>)
             ELSE IF /\ Len(body) % 2 = 1
                     /\ \A i \in DOMAIN body :
                           IF i % 2 = 1 THEN body[i].t = "str"
                           ELSE body[i] = Punct(",")
             THEN Some([k \in 1 .. (Len(body) + 1) \div 2 |->
                           body[2 * k - 1].s])
             ELSE None

\* chat.rs lines 101-103 and streaming.rs lines 99-101:
\* from_str(&images_json).unwrap_or_else(|_| Vec::new())
LoadImages(images_json) ==
    IF from_str_vec(images_json) = None THEN <<>>
    ELSE from_str_vec(images_json)[1]

\* db.rs lines 103-131: the INSERT of a message with its images
InsertImages(images) ==
    /\ Len(image_rows) < MaxImageRows
    /\ image_rows' = Append(image_rows,
                            [images_json |-> to_string(images),
                             inserted |-> Some(images)])
    /\ UNCHANGED loaded

\* a row whose images text was written by another hand than insert_message
ForeignRow(text) ==
    /\ Len(image_rows) < MaxImageRows
    /\ image_rows' = Append(image_rows,
                            [images_json |-> text, inserted |-> None])
    /\ UNCHANGED loaded

\* what a loader returns: the image lists of the rows, or the error of
\* open_db or of the query
Loaded(ok, rows) ==
    IF ok
    THEN [result |-> "Ok", err |-> "none",
          images |-> [i \in DOMAIN rows |-> LoadImages(rows[i].images_json)]]
    ELSE [result |-> "Err", err |-> "database", images |-> <<>>]

\* chat.rs lines 82-122: get_chat_messages maps every row and returns Ok
\* unless the database fails
GetChatMessages(ok) ==
    /\ loaded' = [loaded EXCEPT !["get_chat_messages"] =
                    Some(Loaded(ok, image_rows))]
    /\ UNCHANGED image_rows

\* streaming.rs lines 83-116: the history load of chat_stream
LoadHistory(ok) ==
    /\ loaded' = [loaded EXCEPT !["chat_stream"] =
                    Some(Loaded(ok, image_rows))]
    /\ UNCHANGED image_rows

InitImages ==
    /\ InitManager(EmptyDisk)
    /\ InitSwitchers
    /\ InitDownloads
    /\ InitAcc
    /\ InitChats
    /\ InitDeletes
    /\ NoWait
    /\ NoTurn
    /\ cancel_requested = {}
    /\ NoLocks

NextImages ==
    /\ \/ \E images \in ImageLists : InsertImages(images)
       \/ \E text \in StoredTexts : ForeignRow(text)
       \/ \E ok \in BOOLEAN : GetChatMessages(ok)
       \/ \E ok \in BOOLEAN : LoadHistory(ok)
    /\ UNCHANGED <<mgrVars, disk, swVars, dlVars, accVars, chVars, delVars,
                   wait, turnVars, cancel_requested, lockVars>>

SpecImages == InitImages /\ [][NextImages]_vars

EmptyArrayText == <<Punct("["), Punct("]")>>

\* C25: a message saved with an empty image list is stored with the images
\* text "[]"; no loader returns an error on account of an images text, and
\* each gives an empty list for every row whose text is "[]" and for every
\* row whose text does not parse as a list of strings, so the empty list
\* comes back as the empty list.
C25_EmptyImagesRoundTrip ==
    /\ \A i \in DOMAIN image_rows :
          image_rows[i].inserted = Some(<<>>)
              => image_rows[i].images_json = EmptyArrayText
    /\ \A l \in Loaders :
          loaded[l] # None =>
             /\ loaded[l][1].result = "Err" => loaded[l][1].err = "database"
             /\ \A i \in DOMAIN loaded[l][1].images :
                   LET row == image_rows[i]
                   IN  (\/ row.inserted = Some(<<>>)
                        \/ row.images_json = EmptyArrayText
                        \/ row.images_json \in
                              StoredTexts \ {<<Punct("["), Str(<<"i">>),
                                               Punct("]")>>})
                         => loaded[l][1].images[i] = <<>>

\* both loaders have read a table of a message saved without images and a
\* row with an array cut short: two empty lists each
C25_Witness ==
    /\ Len(image_rows) = 2
    /\ image_rows[1].inserted = Some(<<>>)
    /\ image_rows[2].images_json = <<Punct("["), Str(<<"i">>)>>
    /\ \A l \in Loaders :
          /\ loaded[l] # None
          /\ loaded[l][1].images = <<<<>>, <<>>>>

----------------------------------------------------------------------------
(* One chat turn from the tool loop on, with every kind of stream message *)

\* messages of all the streams of the turn
MaxTurnMessages == 3

\* text, reasoning text, both in one message; a tool call at index 0 whose
\* arguments are cut short, and a whole tool call at index 1
FullStreamDeltas ==
    {AnswerText, ReasoningText, BothTexts, FirstHalf, SecondCall}

RECURSIVE MessagesSent(_)
MessagesSent(streams) ==
    IF streams = <<>> THEN 0
    ELSE Len(Head(streams)) + MessagesSent(Tail(streams))
FullStreamEvents ==
    {[kind |-> k] : k \in {"open", "done", "error", "end"}} \cup
    {[kind |-> "message", data |-> m.data] : m \in SkippedMessages} \cup
    {[kind |-> "delta", delta |-> d] : d \in FullStreamDeltas}

TurnStreamStep ==
    \/ TurnLoop
    \/ \E ok \in BOOLEAN : TurnRequest(ok)
    \/ \E e \in FullStreamEvents, emitOk \in BOOLEAN :
          /\ e.kind \in {"delta", "message"}
                => MessagesSent(turn.streams) < MaxTurnMessages
          /\ TurnEvent(e, emitOk)
    \/ \E emitOk \in BOOLEAN : TurnToolCall(emitOk)
    \/ \E emitOk \in BOOLEAN : TurnToolResult(emitOk)
    \/ \E o \in {"ok", "insert_err"} : TurnPersist(o, 1)
    \/ \E ok \in BOOLEAN : TurnEnd(ok, TRUE)
    \/ cancel_generation /\ UNCHANGED turnVars

NextTurnStream ==
    /\ TurnStreamStep
    /\ UNCHANGED <<mgrVars, disk, swVars, dlVars, accVars, ch, chCalls,
                   delVars, wait, imgVars, cancel_requested, lockVars>>

SpecTurnStream == InitToolTurn /\ [][NextTurnStream]_vars

\* C26: the tool calls accumulated from a stream are executed only if the
\* stream ended with [DONE] or with a normal end of stream; after a stream
\* that ended with an SSE error no tool call is executed and no further
\* completion request is sent in the turn.
C26_NoToolCallAfterStreamError ==
    /\ turn.pc \in {"tool", "tool_running"}
          => turn.ended[Len(turn.ended)] \in {"done", "end"}
    /\ \A i \in DOMAIN turn.ended :
          turn.ended[i] = "error" => Len(turn.requests) <= i

\* the tool calls of the assistant messages of the conversation, the tool
\* results of the conversation and the tool events emitted, each in order
RECURSIVE CallsOf(_)
CallsOf(conversation) ==
    IF conversation = <<>> THEN <<>>
    ELSE (IF Head(conversation).kind = "AssistantWithTools"
          THEN Head(conversation).tool_calls ELSE <<>>)
         \o CallsOf(Tail(conversation))
IsToolResult(m) == m.kind = "ToolResult"
IsToolEvent(e) == e.name \in {"tool:calling", "tool:result"}
ResultsOf(conversation) == SelectSeq(conversation, IsToolResult)
ToolEvents == SelectSeq(turn.emitted, IsToolEvent)

\* every assistant message with tool calls is followed by the results of its
\* calls, as many as were executed so far, and by no other result
ResultsFollowCalls ==
    LET conv == turn.conversation_messages
    IN  /\ \A i \in DOMAIN conv :
              conv[i].kind = "AssistantWithTools" =>
                 LET k == Len(conv[i].tool_calls)
                 IN  /\ k >= 1
                     /\ \A j \in 1 .. k :
                           i + j <= Len(conv) =>
                              /\ conv[i + j].kind = "ToolResult"
                              /\ conv[i + j].tool_call_id
                                    = conv[i].tool_calls[j].id
                     /\ i + k + 1 <= Len(conv)
                           => conv[i + k + 1].kind # "ToolResult"
                     /\ i + k > Len(conv)
                           => /\ turn.pc \in {"tool", "tool_running"}
                              /\ turn.tc = Len(conv) - i
        /\ \A j \in DOMAIN conv :
              conv[j].kind = "ToolResult" =>
                 \E i \in 1 .. j - 1 :
                    /\ conv[i].kind = "AssistantWithTools"
                    /\ j <= i + Len(conv[i].tool_calls)

\* the tool events are tool:calling and tool:result in turn, one pair per
\* executed call in the order of the calls; while a tool runs its
\* tool:calling is out and its tool:result is not
EventsFollowCalls ==
    LET calls == CallsOf(turn.conversation_messages)
        results == ResultsOf(turn.conversation_messages)
    IN  /\ Len(ToolEvents) = 2 * Len(results)
                             + (IF turn.pc = "tool_running" THEN 1 ELSE 0)
        /\ \A n \in DOMAIN ToolEvents :
              LET call == calls[(n + 1) \div 2]
              IN  /\ ToolEvents[n].name = IF n % 2 = 1 THEN "tool:calling"
                                          ELSE "tool:result"
                  /\ ToolEvents[n].payload.call_id = call.id
                  /\ ToolEvents[n].payload.tool_id = call.function.name
        /\ \A j \in DOMAIN results :
              LET payload == ToolEvents[2 * j].payload
              IN  IF payload.success
                  THEN results[j].content = payload.output
                  ELSE /\ results[j].content # <<>>
                       /\ results[j].content[1] = "Error: "

\* the stream of the turn ends on this step with k >= 1 accumulated calls
StreamEndsWithCalls ==
    /\ turn.pc = "stream"
    /\ turn'.pc # "stream"
    /\ turn.tool_calls # <<>>

\* C27: after a stream that accumulated k >= 1 tool-call entries the
\* conversation grows by one assistant message that carries the k calls and
\* the text of the iteration (no content when there is none), followed by k
\* tool results in index order, each with the id of its call; for every
\* entry, default-empty ones included, tool:calling is emitted before the
\* tool is executed and tool:result after, and the result message holds the
\* tool output on success and a text beginning "Error: " on failure.  An
\* event counts as emitted when the emit is made, delivered or not.
C27_ToolRoundExtendsConversation ==
    /\ [](ResultsFollowCalls /\ EventsFollowCalls)
    /\ [][StreamEndsWithCalls =>
            /\ turn'.pc = "tool"
            /\ turn'.conversation_messages =
                  Append(turn.conversation_messages,
                         [kind |-> "AssistantWithTools", role |-> "assistant",
                          content |-> IF turn.iteration_content = <<>>
                                      THEN None
                                      ELSE Some(turn.iteration_content),
                          tool_calls |->
                              [j \in DOMAIN turn.tool_calls |->
                                  [id |-> turn.tool_calls[j].id,
                                   type |-> "function",
                                   function |->
                                      [name |-> turn.tool_calls[j].name,
                                       arguments |->
                                          turn.tool_calls[j].arguments]]]])
         ]_vars

\* a stream sent text and then one tool call at index 1: the assistant
\* message carries the text, a default-empty call and the call sent; the
\* first result is an error, the second the sum
C27_Witness ==
    /\ turn.pc = "loop"
    /\ Len(turn.conversation_messages) = 5
    /\ turn.conversation_messages[3].content = Some(<<"4">>)
    /\ turn.conversation_messages[3].tool_calls[1].id = ""
    /\ turn.conversation_messages[4].content[1] = "Error: "
    /\ turn.conversation_messages[5].tool_call_id = "call_2"
    /\ Contains(turn.conversation_messages[5].content, "4")
    /\ Len(ToolEvents) = 4

\* the loop takes on this step a message that is not [DONE] and does not
\* parse, or parses with no choice
TakesSkippedMessage ==
    /\ turn.pc = "stream"
    /\ Len(turn'.streams) = Len(turn.streams)
    /\ LET n == Len(turn.streams)
       IN  /\ Len(turn'.streams[n]) = Len(turn.streams[n]) + 1
           /\ turn'.streams[n][Len(turn'.streams[n])] \in SkippedMessages

\* the step leaves the accumulators and the tool-call list as they were,
\* emits nothing and does not end the turn
AccumulatorsKept ==
    /\ turn'.iteration_content = turn.iteration_content
    /\ turn'.iteration_thinking = turn.iteration_thinking
    /\ turn'.full_response_content = turn.full_response_content
    /\ turn'.full_response_thinking = turn.full_response_thinking
    /\ turn'.tool_calls = turn.tool_calls
    /\ turn'.emitted = turn.emitted
    /\ turn'.pc # "done"
    /\ turn'.result = "none"

CurrentCall == turn.tool_calls[turn.tc + 1]
BadArguments(call) == from_str(call.arguments) = None

\* the last event emitted and the last message of the conversation after
\* the step
LastEmitted == turn'.emitted[Len(turn'.emitted)]
LastMessage == turn'.conversation_messages[Len(turn'.conversation_messages)]

\* C29: a tool call whose accumulated argument text is not valid JSON is
\* executed with the empty object as its arguments; tool:calling and
\* tool:result are emitted for it and its result joins the conversation as
\* for any other call; the turn is not aborted and the next call of the
\* iteration, if any, comes next.
C29_BadArgumentsRunWithEmptyObject ==
    [][/\ (turn.pc = "tool" /\ turn' # turn /\ BadArguments(CurrentCall))
            => /\ turn'.pc = "tool_running"
               /\ turn'.arguments = {}
               /\ Len(turn'.emitted) = Len(turn.emitted) + 1
               /\ LastEmitted.name = "tool:calling"
               /\ LastEmitted.payload =
                     [tool_id |-> CurrentCall.name,
                      call_id |-> CurrentCall.id, arguments |-> {}]
               /\ turn'.tc = turn.tc
       /\ (turn.pc = "tool_running" /\ turn' # turn
              /\ BadArguments(CurrentCall))
            => LET result == execute_tool(
                      [tool_id |-> CurrentCall.name,
                       call_id |-> CurrentCall.id, arguments |-> {}])
               IN  /\ Len(turn'.emitted) = Len(turn.emitted) + 1
                   /\ LastEmitted.name = "tool:result"
                   /\ LastEmitted.payload.call_id = CurrentCall.id
                   /\ LastEmitted.payload.success = result.success
                   /\ LastEmitted.payload.error = result.error
                   /\ Len(turn'.conversation_messages)
                         = Len(turn.conversation_messages) + 1
                   /\ LastMessage.kind = "ToolResult"
                   /\ LastMessage.tool_call_id = CurrentCall.id
                   /\ turn'.result = "none"
                   /\ IF turn.tc + 1 < Len(turn.tool_calls)
                      THEN /\ turn'.pc = "tool"
                           /\ turn'.tc = turn.tc + 1
                           /\ turn'.tool_calls = turn.tool_calls
                      ELSE /\ turn'.pc = "loop"
                           /\ turn'.iteration = turn.iteration + 1]_vars

\* a round of two calls, the first with arguments cut short: both were
\* called, the first with the empty object, and both results are in the
\* conversation
C29_Witness ==
    /\ turn.pc = "loop"
    /\ turn.iteration = 1
    /\ turn.streams[1] = <<FirstHalf, SecondCall>>
    /\ Len(ToolEvents) = 4
    /\ ToolEvents[1].payload.arguments = {}
    /\ ToolEvents[3].payload.arguments # {}
    /\ ~ToolEvents[2].payload.success
    /\ ToolEvents[4].payload.success
    /\ Len(ResultsOf(turn.conversation_messages)) = 2

\* a stream message that carries content or reasoning text, and the
\* chat:delta payload made of it
CarriesText(m) ==
    /\ m \notin SkippedMessages
    /\ \/ m.content # None /\ m.content[1] # <<>>
       \/ m.reasoning_content # None /\ m.reasoning_content[1] # <<>>
PayloadOf(m) ==
    [delta |-> IF m.content = None THEN <<>> ELSE m.content[1],
     reasoning_delta |-> IF m.reasoning_content = None THEN <<>>
                         ELSE m.reasoning_content[1]]

\* the messages of the first n streams in the order of arrival: all of
\* them, and those taken before the flag was seen set
RECURSIVE Arrived(_)
Arrived(n) ==
    IF n = 0 THEN <<>> ELSE Arrived(n - 1) \o turn.streams[n]
RECURSIVE Processed(_)
Processed(n) ==
    IF n = 0 THEN <<>>
    ELSE Processed(n - 1) \o
         (IF n \in turn.discarded
          THEN SubSeq(turn.streams[n], 1, Len(turn.streams[n]) - 1)
          ELSE turn.streams[n])

IsChatDelta(e) == e.name = "chat:delta"
DeltaEvents == SelectSeq(turn.emitted, IsChatDelta)

RECURSIVE DeltasJoined(_)
DeltasJoined(events) ==
    IF events = <<>> THEN <<>>
    ELSE Head(events).payload.delta \o DeltasJoined(Tail(events))
RECURSIVE ReasoningJoined(_)
ReasoningJoined(events) ==
    IF events = <<>> THEN <<>>
    ELSE Head(events).payload.reasoning_delta \o ReasoningJoined(Tail(events))

\* the chat:delta events are those of the messages with text, in order
DeltasMatch(sent) ==
    LET withText == SelectSeq(sent, CarriesText)
    IN  /\ Len(DeltaEvents) = Len(withText)
        /\ \A i \in DOMAIN DeltaEvents :
              DeltaEvents[i].payload = PayloadOf(withText[i])

\* the accumulators of the turn, and the assistant message once saved, are
\* the emitted deltas joined
AccumulatorsAreDeltasJoined ==
    /\ turn.full_response_content = DeltasJoined(DeltaEvents)
    /\ turn.full_response_thinking = ReasoningJoined(DeltaEvents)
    /\ \A i \in DOMAIN messages :
          messages[i].role = "assistant" =>
             /\ messages[i].content = DeltasJoined(DeltaEvents)
             /\ messages[i].thinking = ReasoningJoined(DeltaEvents)

\* C30 as stated: chat:delta events are emitted in the order of arrival of
\* the stream messages, one per message that carries content or reasoning
\* text; at every point the content accumulator of the turn is the delta
\* fields emitted so far joined, over all iterations, likewise the reasoning
\* text; the saved assistant message is all the emitted deltas joined.
C30_DeltasInOrderAndAccumulated ==
    /\ DeltasMatch(Arrived(Len(turn.streams)))
    /\ AccumulatorsAreDeltasJoined

\* C30 (amended): the same for the messages taken before the cancellation
\* flag was seen set; a message taken with the flag set is dropped unread,
\* it is neither emitted nor accumulated.  An event counts as emitted when
\* the emit is made, delivered or not.
C30_DeltasOfProcessedMessages ==
    /\ DeltasMatch(Processed(Len(turn.streams)))
    /\ AccumulatorsAreDeltasJoined

\* a turn of two streams has returned Ok: text with reasoning and a tool
\* call in the first, text in the second; the saved message holds both texts
C30_Witness ==
    /\ turn.pc = "done"
    /\ turn.result = "Ok"
    /\ turn.streams = <<<<BothTexts, SecondCall>>, <<AnswerText>>>>
    /\ Len(DeltaEvents) = 2
    /\ Len(messages) = 2
    /\ messages[2].content = <<"a", "4">>
    /\ messages[2].thinking = <<"r">>

----------------------------------------------------------------------------
(* One chat turn from the read of the settings to its return *)

WholeTurnEvents ==
    ToolsTurnEvents \cup {[kind |-> "end"]}

WholeTurnStep ==
    \/ \E ok \in BOOLEAN : TurnSettings(ok)
    \/ TurnLoop
    \/ \E ok \in BOOLEAN : TurnRequest(ok)
    \/ \E e \in WholeTurnEvents, emitOk \in BOOLEAN :
          /\ e.kind = "delta" => MessagesSent(turn.streams) < MaxTurnMessages
          /\ TurnEvent(e, emitOk)
    \/ \E emitOk \in BOOLEAN : TurnToolCall(emitOk)
    \/ \E emitOk \in BOOLEAN : TurnToolResult(emitOk)
    \/ \E o \in InsertOutcomes, d \in Durations : TurnPersist(o, d)
    \/ \E ok \in BOOLEAN, emitOk \in BOOLEAN : TurnEnd(ok, emitOk)
    \/ cancel_generation /\ UNCHANGED turnVars

NextWholeTurn ==
    /\ WholeTurnStep
    /\ UNCHANGED <<mgrVars, disk, swVars, dlVars, accVars, ch, chCalls,
                   delVars, wait, imgVars, cancel_requested, lockVars>>

SpecWholeTurn == InitTurnTools /\ [][NextWholeTurn]_vars

\* the emits of the turn's text and tool events
TurnBodyEvents ==
    Attempted("chat:delta") \cup Attempted("tool:calling")
        \cup Attempted("tool:result")

\* the row saved last is the assistant message of the chat, saved with the
\* duration d
AssistantSavedWith(chat_id, d) ==
    /\ messages # <<>>
    /\ LET m == messages[Len(messages)]
       IN  /\ m.role = "assistant"
           /\ m.conversation_id = chat_id
           /\ m.duration_ms = Some(d)

\* C31: a chat turn that returns Ok has emitted exactly one chat:begin, before
\* every chat:delta, tool:calling and tool:result of the turn, and exactly one
\* chat:end, after all of them; whenever chat:end has been emitted the
\* assistant message is in the table, saved with the duration chat:end
\* carries.
C31_BeginAndEndFrameTheTurn ==
    /\ turn.result = "Ok" =>
          /\ Cardinality(Attempted("chat:begin")) = 1
          /\ Delivered("chat:begin") = Attempted("chat:begin")
          /\ Cardinality(Attempted("chat:end")) = 1
          /\ \A b \in Attempted("chat:begin"), e \in Attempted("chat:end") :
                /\ b < e
                /\ \A i \in TurnBodyEvents : b < i /\ i < e
    /\ \A e \in Attempted("chat:end") :
          AssistantSavedWith(turn.emitted[e].payload.chat_id,
                             turn.emitted[e].payload.duration_ms)

\* a turn that returned Ok after text, a tool call and its result, its
\* duration the longest
C31_Witness ==
    /\ turn.result = "Ok"
    /\ Attempted("chat:delta") # {}
    /\ Attempted("tool:calling") # {}
    /\ Attempted("tool:result") # {}
    /\ turn.duration_ms = MaxDuration
    /\ turn.full_response_content # <<>>

----------------------------------------------------------------------------
(* download_model: where the cancellation token is read *)

\* the body of the last file of the call has ended
PastLastChunk(f) ==
    \/ f.pc = "flush" /\ f.file = Len(files_to_download(f.id))
    \/ f.pc \in {"finish_downloads", "finish_progress", "complete"}

\* the step of the call makes it observe the cancellation
ObservesCancel(f, g) == g.err = "cancelled" /\ f.err # "cancelled"

\* every file of the model is in its directory
FilesKept(id) ==
    /\ disk[get_model_dir(id)] # None
    /\ \A k \in DOMAIN files_to_download(id) :
          files_to_download(id)[k].filename \in disk[get_model_dir(id)][1]

----------------------------------------------------------------------------
(* download_model: download:complete *)

\* the step is the emit of download:complete by the call of p
EmitsComplete(p) == dl'[p].complete_events = dl[p].complete_events + 1

\* C33: download:complete is emitted once by a call that returns Ok and not
\* at all by a call that returns an error, and when it is emitted neither
\* active_downloads nor downloading_progress holds the model id.
C33_CompleteAfterTrackingCleared ==
    [][\A p \in DlProcs :
          /\ (dl'[p] # dl[p] /\ dl'[p].pc = "done") =>
                dl'[p].complete_events
                    = (IF dl'[p].result = "Ok" THEN 1 ELSE 0)
          /\ EmitsComplete(p) =>
                /\ active_downloads[dl[p].id] = None
                /\ downloading_progress[dl[p].id] = None]_vars

----------------------------------------------------------------------------
(* download_model: the throttle of download:progress *)

\* multiples of ProgressStep up to n bytes
Multiples(n) == n \div ProgressStep

----------------------------------------------------------------------------
(* download_model: the progress stored and reported *)

\* the call is between its first store of the progress and its return
Reporting(f) == f.pc \notin {"idle", "done", "register", "track"}

----------------------------------------------------------------------------
(* switch_model: the status event of a failed launch *)

\* C36: a switch_model call that fails while launching the subprocess, in
\* creating the sidecar command or in spawning it, returns Err and has
\* emitted a model:switching event of status "error" when it returns.
C36_LaunchFailureEmitsError ==
    [][\A p \in SwProcs :
          (Returns(p) /\ sw'[p].err \in {"sidecar", "spawn"})
             => /\ sw'[p].result = "Err"
                /\ "error" \in sw'[p].events]_vars

----------------------------------------------------------------------------
(* The commands side by side: chat_stream, cancel_generation, switch_model, *)
(* download_model, cancel_download and delete_model on one manager          *)

\* calls of chat_stream, switch_model, download_model and delete_model made
\* in one run, over all four
MaxCommandCalls == 2

CallsStarted == swCalls + dlCalls + chCalls + delCalls

\* a fresh installation: no model on disk, so no startup task
InitCommands ==
    /\ InitManager(EmptyDisk)
    /\ InitSwitchers
    /\ InitDownloads
    /\ InitAcc
    /\ InitChats
    /\ InitDeletes
    /\ NoWait
    /\ NoTurn
    /\ cancel_requested = {}
    /\ NoLocks

\* chat_stream of one caller; it reads and writes the flag and the database
CommandsChat ==
    \/ \E p \in ChProcs, id \in ChatIds : ChStart(p, id)
    \/ \E p \in ChProcs, o \in InsertOutcomes : ChSaveUser(p, o)
    \/ \E p \in ChProcs, ok \in BOOLEAN : ChHistory(p, ok)
    \/ \E p \in ChProcs, ok \in BOOLEAN : ChBegin(p, ok)
    \/ \E p \in ChProcs : ChLoop(p)
    \/ \E p \in ChProcs, ok \in BOOLEAN : ChRequest(p, ok)
    \/ \E p \in ChProcs, e \in PairEvents :
          /\ (e.kind = "delta" /\ e.delta.tool_calls # None)
                => ch[p].iteration < MaxToolRounds
          /\ ChEvent(p, e, TRUE)
    \/ \E p \in ChProcs : ChToolCall(p, TRUE)
    \/ \E p \in ChProcs : ChToolResult(p, TRUE)
    \/ \E p \in ChProcs, o \in InsertOutcomes : ChPersist(p, o)
    \/ \E p \in ChProcs, ok \in BOOLEAN : ChEnd(p, ok, TRUE)

\* each command with the state it has no access to
CommandsStep ==
    \/ /\ CommandsChat \/ cancel_generation
       /\ UNCHANGED <<mgrVars, disk, swVars, dlVars, delVars>>
    \/ /\ SwitchCalls({1})
       /\ UNCHANGED <<dlVars, chVars, delVars>>
    \/ /\ DownloadStep({1}, {ProgressStep})
       /\ UNCHANGED <<mgrVars, swVars, chVars, delVars>>
    \/ /\ DeleteStep
       /\ UNCHANGED <<lastDone, dlVars, chVars>>

NextCommands ==
    /\ CommandsStep
    /\ CallsStarted' # CallsStarted => CallsStarted < MaxCommandCalls
    /\ UNCHANGED <<accVars, wait, turnVars, imgVars, cancel_requested,
                   lockVars>>

SpecCommands == InitCommands /\ [][NextCommands]_vars

\* what chat_stream and cancel_generation have no access to
ManagerAndDownloads ==
    <<process, is_ready, model_path, mmproj_path, current_model_id,
      active_downloads, downloading_progress, cancelled>>

\* C37: a step of chat_stream or cancel_generation leaves the process slot,
\* is_ready, the two paths, current_model_id, both download maps and every
\* download token as they were; a step of switch_model, download_model,
\* cancel_download or delete_model leaves is_cancelled as it was; and a step
\* that sets a download token sets only the token registered for the id it
\* was called with, a call for an id that is not in the map setting none.
C37_CommandsKeepToTheirState ==
    [][/\ (ch' # ch \/ messages' # messages \/ chCalls' # chCalls
              \/ is_cancelled' # is_cancelled)
          => UNCHANGED ManagerAndDownloads
       /\ (sw' # sw \/ dl' # dl \/ del' # del \/ cancelled' # cancelled)
          => is_cancelled' = is_cancelled
       /\ cancelled' # cancelled
          => \E id \in ModelIds :
                /\ active_downloads[id] # None
                /\ cancelled' = cancelled \cup {active_downloads[id][1]}
                /\ \A p \in DlProcs :
                      dl[p].n = active_downloads[id][1] => dl[p].id = id
                /\ UNCHANGED <<dl, active_downloads, downloading_progress>>]_vars

\* a turn is streaming with its generation cancelled while a download that
\* has received bytes goes on, its token clear
C37_Witness ==
    /\ is_cancelled
    /\ ch[1].pc = "stream"
    /\ dl[1].pc = "chunk"
    /\ dl[1].total_downloaded > 0
    /\ dl[1].n \notin cancelled
    /\ active_downloads[dl[1].id] = Some(dl[1].n)

----------------------------------------------------------------------------
(* chat_stream: the tools a turn may run *)

\* the tool ids execute_tool dispatches to an implementation
BuiltInIds == {BUILT_IN_TOOLS[k].id : k \in DOMAIN BUILT_IN_TOOLS}

\* C38: while a tool call of the turn is executed, the tool it names, if a
\* built-in one, is in the enabled set the turn read from the settings; in
\* particular no built-in tool is executed in a turn whose requests carry no
\* tools.
C38_OnlyEnabledToolsRun ==
    (turn.pc = "tool_running" /\ CurrentCall.name \in BuiltInIds)
        => /\ contains(turn.enabled_tool_ids, CurrentCall.name)
           /\ turn.tools_json # None

----------------------------------------------------------------------------
(* switch_model and the startup task: the server subprocesses *)

\* the child is on its way from cmd.spawn() into the slot
BeingStored(c) ==
    \/ \E p \in SwProcs : sw[p].pc = "store" /\ sw[p].child = Some(c)
    \/ st.pc = "store" /\ st.child = Some(c)

\* C39: every subprocess spawned by switch_model or by the startup task is the
\* child in the process slot (or the child its spawner is about to store) or
\* has been sent a kill, and at most one spawned subprocess has not been sent
\* a kill.
C39_AtMostOneLiveServer ==
    /\ \A c \in spawned :
          c \in killSent \/ process = Some(c) \/ BeingStored(c)
    /\ Cardinality(spawned \ killSent) <= 1

----------------------------------------------------------------------------
(* chat_stream and cancel_generation: a cancellation and a starting turn *)

\* C40: a turn that was in flight, its flag reset, when cancel_generation was
\* called finds the flag set at its next check, whatever chat_stream call has
\* started since, and does not go on to send a completion request.
C40_CancelSurvivesNewTurn ==
    [][\A p \in PairProcs :
          (p \in cancel_requested /\ ChecksFlag(p))
             => /\ ch'[p].cancel_seen
                /\ ch'[p].pc # "request"]_vars

====
